---- MODULE Spec2Model ----
(***************************************************************************)
(* Tender Management System: the ingestion pipeline (LangGraph workflow    *)
(* fetch_pdf -> extract_details -> chunk_document -> generate_embeddings   *)
(* -> store_in_db), the embedding service with its retry / halving loop,   *)
(* and the repositories the persist stage writes through.                  *)
(*                                                                         *)
(* Texts are sequences of one-character strings.  Vectors are records      *)
(* [dim, zero, of]: the dimension, whether every element is 0.0, and (for  *)
(* a provider vector) the length of the text the provider embedded.        *)
(***************************************************************************)
EXTENDS Integers, Sequences, FiniteSets, TLC

VARIABLES
    settings,         \* config.settings.settings : the environment-driven options
    probe,            \* last direct call of a service function and its outcome
    pc,               \* per ingestion run: the node about to run
    state,            \* per run: the TenderIngestionState dict
    existing,         \* per run: tender_id found by the upsert's query (0: none)
    response,         \* per run: what the entry point returned
    tender_projects,  \* committed rows of table tender_projects
    tender_files,     \* committed rows of table tender_files
    tender_chunks,    \* committed rows of table tender_chunks
    next_id,          \* the autoincrement sequences of the three tables
    hist,             \* per run: the nodes invoked so far, in order
    trace             \* per run: the collaborator calls and writes made

db == <<tender_projects, tender_files, tender_chunks, next_id>>
runs == <<pc, state, existing, response, hist, trace>>
vars == <<settings, probe, pc, state, existing, response, tender_projects,
          tender_files, tender_chunks, next_id, hist, trace>>

-----------------------------------------------------------------------------
(* Bounds of the model *)

MaxRetriesCfg == 3        \* MAX_RETRIES is drawn from 0..MaxRetriesCfg
ScriptLen == 5            \* provider outcomes scripted per direct call
MaxChunkRows == 3         \* chunk rows of the document searched directly
MaxTokens == 2            \* token events of one stream
MaxParagraphs == 3        \* paragraphs of a text chunked directly
MaxPageLen == 4           \* characters of a page text fetched directly

\* the longest text given to chunk_text
MaxTextChars == 5

\* the most windows one call of chunk_text is followed through
MaxWindows == 6

\* the ingestion runs (requests in flight at the same time)
Runs == {"r1", "r2"}

-----------------------------------------------------------------------------
(* Python string helpers *)

\* the characters str.strip(), str.split() and \s treat as whitespace
Whitespace == {" ", "\n", "\t"}

\* None, as a value comparable with every text
None == <<"<None>">>

\* dict.get(key, default), key in dict, dict[key] = value
Get(d, k, default) == IF k \in DOMAIN d THEN d[k] ELSE default
Has(d, k) == k \in DOMAIN d
Put(d, k, v) == [x \in (DOMAIN d) \cup {k} |-> IF x = k THEN v ELSE d[x]]

\* truth value of an optional text (None and "" are falsy)
Truthy(text) == text # None /\ text # <<>>

Digits == {"0", "1", "2", "3", "4", "5", "6", "7", "8", "9"}

DigitVal(c) ==
    CASE c = "0" -> 0 [] c = "1" -> 1 [] c = "2" -> 2 [] c = "3" -> 3
      [] c = "4" -> 4 [] c = "5" -> 5 [] c = "6" -> 6 [] c = "7" -> 7
      [] c = "8" -> 8 [] c = "9" -> 9

UpperCase == <<"A", "B", "C", "D", "E", "F", "G", "H", "I", "J", "K", "L", "M", "N", "O", "P", "Q", "R", "S", "T", "U", "V", "W", "X", "Y", "Z">>
LowerCase == <<"a", "b", "c", "d", "e", "f", "g", "h", "i", "j", "k", "l", "m", "n", "o", "p", "q", "r", "s", "t", "u", "v", "w", "x", "y", "z">>

\* str.lower() on one character
Lower(c) ==
    IF \E i \in 1..26 : UpperCase[i] = c
    THEN LowerCase[CHOOSE i \in 1..26 : UpperCase[i] = c]
    ELSE c

LowerText(text) == [i \in 1..Len(text) |-> Lower(text[i])]

\* text[i:] (0-based i)
Suffix(text, i) == SubSeq(text, i + 1, Len(text))

\* "".join(parts)
RECURSIVE Concat(_)
Concat(parts) == IF parts = <<>> THEN <<>> ELSE Head(parts) \o Concat(Tail(parts))

\* last index of the run of whitespace that starts at index i
RunEnd(text, i) ==
    IF \A j \in i..Len(text) : text[j] \in Whitespace THEN Len(text)
    ELSE (CHOOSE j \in i..Len(text) :
             /\ text[j] \notin Whitespace
             /\ \A k \in i..(j - 1) : text[k] \in Whitespace) - 1

\* index of the last newline of the whitespace run that starts at index i
LastNewline(text, i) ==
    CHOOSE j \in i..RunEnd(text, i) :
        /\ text[j] = "\n"
        /\ \A k \in (j + 1)..RunEnd(text, i) : text[k] # "\n"


Rep(c, n) == [i \in 1..n |-> c]

MinOf(S) == CHOOSE x \in S : \A y \in S : x <= y
MaxOf(S) == CHOOSE x \in S : \A y \in S : x >= y

\* text[:n]
Prefix(text, n) == SubSeq(text, 1, IF n < Len(text) THEN n ELSE Len(text))

\* str.strip()
Strip(text) ==
    IF \A i \in 1..Len(text) : text[i] \in Whitespace THEN <<>>
    ELSE LET first == CHOOSE i \in 1..Len(text) :
                         /\ text[i] \notin Whitespace
                         /\ \A j \in 1..(i - 1) : text[j] \in Whitespace
             last  == CHOOSE i \in 1..Len(text) :
                         /\ text[i] \notin Whitespace
                         /\ \A j \in (i + 1)..Len(text) : text[j] \in Whitespace
         IN  SubSeq(text, first, last)

\* str.rfind(pat): 0-based index of the last occurrence, -1 when absent
MatchAt(text, pat, i) == \A k \in 1..Len(pat) : text[i + k - 1] = pat[k]

RFind(text, pat) ==
    LET hits == {i \in 1..(Len(text) - Len(pat) + 1) : MatchAt(text, pat, i)}
    IN  IF hits = {} THEN -1 ELSE MaxOf(hits) - 1

-----------------------------------------------------------------------------
(* utils/text_processing.py *)

SentenceBreaks == << <<".", " ">>, <<"!", " ">>, <<"?", " ">>, <<"\n", "\n">> >>

\* last_break > max_chars * 0.8
GoodBreak(last_break, max_chars) == last_break * 10 > max_chars * 8

truncate_for_embedding(text, max_chars) ==
    IF Len(text) = 0 THEN <<>>
    ELSE IF Len(text) <= max_chars THEN text
    ELSE LET truncated == Prefix(text, max_chars)
             last_break == [k \in 1..Len(SentenceBreaks) |->
                              RFind(truncated, SentenceBreaks[k])]
             good == {k \in 1..Len(SentenceBreaks) :
                        GoodBreak(last_break[k], max_chars)}
         IN  IF good # {}
             THEN Strip(Prefix(truncated, last_break[MinOf(good)] + 1))
             ELSE Strip(truncated)

-----------------------------------------------------------------------------
(* services/embedding_service.py *)

MAX_EMBEDDING_CHARS == 10000
EmbeddingDim == 768
MinReducedLen == 100

Outcomes == {"ok", "too_large", "error"}

\* the provider's behaviour over n calls
Scripts(n) == [1..n -> Outcomes]

\* [0.0] * 768
ZeroVector == [dim |-> EmbeddingDim, zero |-> TRUE, of |-> 0]

\* embedding['embedding'] for the content the provider was sent
ProviderVector(text) == [dim |-> EmbeddingDim, zero |-> FALSE, of |-> Len(text)]

\* the provider's outcome for the next call; a script that has run out succeeds
NextOutcome(script) == IF script = <<>> THEN "ok" ELSE Head(script)
RestOf(script) == IF script = <<>> THEN <<>> ELSE Tail(script)

\* while retries < settings.MAX_RETRIES
LoopGuard(retries, max_retries) == retries < max_retries

\* "payload size exceeds" in error_msg.lower() or "too large" in error_msg.lower()
IsPayloadTooLarge(outcome) == outcome = "too_large"

\* a reduction that drops one character instead of half of the text
HalveByOne(text) == Prefix(text, Len(text) - 1)

\* text = text[:len(text)//2]
Halve(text) == Prefix(text, Len(text) \div 2)

\* a minimum viable length of 50 instead of 100
TooShortAt50(text) == Len(text) < 50

\* if len(text) < 100: raise
TooShort(text) == Len(text) < MinReducedLen

\* a check that raises one failure too late
RetriesExhaustedLate(retries, max_retries) == retries > max_retries

\* if retries >= settings.MAX_RETRIES: raise
RetriesExhausted(retries, max_retries) == retries >= max_retries

\* a constant backoff instead of an exponential one
WaitTimeConstant(retries) == 2

\* wait_time = 2 ** retries
WaitTime(retries) == 2 ^ retries

\* The retry loop.  c = [text, retries, script, sent, sleeps]; the result
\* adds status ("return" / "raise") and value (the vector or the message).
RECURSIVE EmbedLoop(_, _)
EmbedLoop(c, max_retries) ==
    IF ~LoopGuard(c.retries, max_retries)
    THEN [status |-> "return", value |-> ZeroVector, fallback |-> TRUE,
          retries |-> c.retries, sent |-> c.sent, sleeps |-> c.sleeps,
          rest |-> c.script]
    ELSE
      LET outcome == NextOutcome(c.script)
          rest    == RestOf(c.script)
          sent    == Append(c.sent, Len(c.text))
      IN  IF outcome = "ok"
          THEN [status |-> "return", value |-> ProviderVector(c.text),
                fallback |-> FALSE, retries |-> c.retries, sent |-> sent,
                sleeps |-> c.sleeps, rest |-> rest]
          ELSE IF IsPayloadTooLarge(outcome)
          THEN LET text == Halve(c.text)
               IN  IF TooShort(text)
                   THEN [status |-> "raise",
                         value |-> "Text too short after reduction",
                         fallback |-> FALSE, retries |-> c.retries,
                         sent |-> sent, sleeps |-> c.sleeps, rest |-> rest]
                   ELSE EmbedLoop([c EXCEPT !.text = text, !.script = rest,
                                            !.sent = sent], max_retries)
          ELSE LET retries == c.retries + 1
               IN  IF RetriesExhausted(retries, max_retries)
                   THEN [status |-> "raise",
                         value |-> "Failed to generate embedding after retries",
                         fallback |-> FALSE, retries |-> retries,
                         sent |-> sent, sleeps |-> c.sleeps, rest |-> rest]
                   ELSE EmbedLoop([c EXCEPT !.retries = retries,
                                            !.script = rest, !.sent = sent,
                                            !.sleeps = Append(c.sleeps,
                                                         WaitTime(retries))],
                                  max_retries)

generate_dense_embedding(text, script, max_retries) ==
    EmbedLoop([text |-> truncate_for_embedding(text, MAX_EMBEDDING_CHARS),
               retries |-> 0, script |-> script, sent |-> <<>>,
               sleeps |-> <<>>], max_retries)

\* A batch loop that lets an item's exception escape: the loop stops there.
BatchStepPropagates(b, text, i, max_retries) ==
    LET res == generate_dense_embedding(text, b.script, max_retries)
    IN  IF b.status = "raise" THEN b
        ELSE IF res.status = "return"
        THEN [b EXCEPT !.embeddings = Append(b.embeddings, res.value),
                       !.script = res.rest]
        ELSE [b EXCEPT !.status = "raise", !.script = res.rest]

\* One iteration of the batch loop for texts[i]; b = [status, embeddings,
\* failed_count, sleeps, script].
BatchStep(b, text, i, max_retries) ==
    LET res == generate_dense_embedding(text, b.script, max_retries)
    IN  IF res.status = "return"
        THEN [status |-> "return",
              embeddings |-> Append(b.embeddings, res.value),
              failed_count |-> b.failed_count,
              sleeps |-> b.sleeps \o res.sleeps
                          \o (IF (i % 10 = 0) /\ (i > 0) THEN <<1>> ELSE <<>>),
              script |-> res.rest]
        ELSE [status |-> "return",
              embeddings |-> Append(b.embeddings, ZeroVector),
              failed_count |-> b.failed_count + 1,
              sleeps |-> b.sleeps \o res.sleeps,
              script |-> res.rest]

\* for i, text in enumerate(texts): the result of each step is a value
\* before the next step begins
RECURSIVE BatchLoop(_, _, _, _)
BatchLoop(b, texts, i, max_retries) ==
    IF i >= Len(texts) THEN b
    ELSE CHOOSE out \in { BatchLoop(step, texts, i + 1, max_retries) :
                             step \in {BatchStep(b, texts[i + 1], i,
                                                 max_retries)} } : TRUE

batch_generate_dense_embeddings(texts, script, max_retries) ==
    BatchLoop([status |-> "return", embeddings |-> <<>>, failed_count |-> 0, sleeps |-> <<>>,
               script |-> script], texts, 0, max_retries)

-----------------------------------------------------------------------------
(* workflows/ingestion_workflow.py : helper functions *)

\* the character U+20B9 (rupee sign), one element of a text
Rupee == "<rupee>"

\* ["null", "None", "N/A", "Not found", "Not specified"]
NullStrings ==
    { <<"n", "u", "l", "l">>,
      <<"N", "o", "n", "e">>,
      <<"N", "/", "A">>,
      <<"N", "o", "t", " ", "f", "o", "u", "n", "d">>,
      <<"N", "o", "t", " ", "s", "p", "e", "c", "i", "f", "i", "e", "d">> }

\* first index >= i whose character is outside class (Len(text) + 1 if none)
SkipClass(text, i, class) ==
    IF \A j \in i..Len(text) : text[j] \in class THEN Len(text) + 1
    ELSE CHOOSE j \in i..Len(text) :
            /\ text[j] \notin class
            /\ \A k \in i..(j - 1) : text[k] \in class

\* the literal lit matches at index i, ignoring case
MatchLiteral(text, i, lit) ==
    /\ i >= 1
    /\ i + Len(lit) - 1 <= Len(text)
    /\ \A k \in 1..Len(lit) : Lower(text[i + k - 1]) = Lower(lit[k])

\* w1 \s+ w2 \s+ ... wn from index i: index after wn, 0 when no match
RECURSIVE MatchWords(_, _, _, _)
MatchWords(text, i, words, k) ==
    IF ~MatchLiteral(text, i, words[k]) THEN 0
    ELSE LET after == i + Len(words[k])
         IN  IF k = Len(words) THEN after
             ELSE IF SkipClass(text, after, Whitespace) = after THEN 0
             ELSE MatchWords(text, SkipClass(text, after, Whitespace), words, k + 1)

AmountChars == Digits \cup {",", "."}

\* \s*([\d,\.]+) from index i: the captured group, None when no match
AmountAt(text, i) ==
    LET start == SkipClass(text, i, Whitespace)
        stop  == SkipClass(text, start, AmountChars)
    IN  IF stop > start THEN SubSeq(text, start, stop - 1) ELSE None

\* <words>[:\s]+(?:Rs\.?|rupee sign)\s*([\d,\.]+) at index i: group 1 or None
PatternAt(text, i, words) ==
    LET w == MatchWords(text, i, words, 1)
        c == SkipClass(text, w, Whitespace \cup {":"})
    IN  IF w = 0 \/ c = w THEN None
        ELSE IF MatchLiteral(text, c, <<Rupee>>) THEN AmountAt(text, c + 1)
        ELSE IF MatchLiteral(text, c, <<"R", "s">>)
        THEN IF c + 2 <= Len(text) /\ text[c + 2] = "."
                  /\ AmountAt(text, c + 3) # None
             THEN AmountAt(text, c + 3)
             ELSE AmountAt(text, c + 2)
        ELSE None

\* re.search(pattern, text, re.IGNORECASE): group 1 of the leftmost match
SearchPattern(text, words) ==
    IF \E i \in 1..Len(text) : PatternAt(text, i, words) # None
    THEN PatternAt(text, CHOOSE i \in 1..Len(text) :
                            /\ PatternAt(text, i, words) # None
                            /\ \A j \in 1..(i - 1) : PatternAt(text, j, words) = None,
                   words)
    ELSE None

ValuePatterns ==
    << <<<<"T", "o", "t", "a", "l">>, <<"E", "s", "t", "i", "m", "a", "t", "e", "d">>, <<"C", "o", "s", "t">>>>,
       <<<<"P", "r", "o", "j", "e", "c", "t">>, <<"C", "o", "s", "t">>>>,
       <<<<"E", "s", "t", "i", "m", "a", "t", "e", "d">>, <<"A", "m", "o", "u", "n", "t">>>>,
       <<<<"C", "o", "n", "t", "r", "a", "c", "t">>, <<"V", "a", "l", "u", "e">>>>,
       <<<<"T", "o", "t", "a", "l">>, <<"V", "a", "l", "u", "e">>>>,
       <<<<"T", "e", "n", "d", "e", "r">>, <<"V", "a", "l", "u", "e">>>> >>

extract_project_value_from_text(text) ==
    LET hits == {k \in 1..Len(ValuePatterns) :
                    SearchPattern(text, ValuePatterns[k]) # None}
    IN  IF hits = {} THEN None
        ELSE <<"R", "s", ".", " ">>
               \o SearchPattern(text, ValuePatterns[MinOf(hits)])

\* re.sub(r'[rupee$euro pound,\s]', '', str(value))
\* a character class that also removes the letters of "Rs"
CurrencyNoiseWithRs ==
    {Rupee, "$", ",", "<euro>", "<pound>", "R", "s"} \cup Whitespace

\* [rupee $ euro pound , \s]
CurrencyNoise == {Rupee, "$", ",", "<euro>", "<pound>"} \cup Whitespace

RemoveNoise(text) == SelectSeq(text, LAMBDA c : c \notin CurrencyNoise)

\* the digits of a text as a number
RECURSIVE DigitsVal(_)
DigitsVal(ds) ==
    IF ds = <<>> THEN 0
    ELSE 10 * DigitsVal(SubSeq(ds, 1, Len(ds) - 1)) + DigitVal(ds[Len(ds)])

\* float(cleaned), in hundredths: [ok, val].  The texts of the model hold
\* digits, one optional sign and '.', with at most two decimals; every other
\* character makes float() raise ValueError.
ParseFloat(cleaned) ==
    LET signed == cleaned # <<>> /\ cleaned[1] \in {"-", "+"}
        body   == IF signed THEN Tail(cleaned) ELSE cleaned
        dots   == {i \in 1..Len(body) : body[i] = "."}
        int    == IF dots = {} THEN body
                  ELSE SubSeq(body, 1, MinOf(dots) - 1)
        frac   == IF dots = {} THEN <<>>
                  ELSE SubSeq(body, MinOf(dots) + 1, Len(body))
        wellFormed ==
            /\ Cardinality(dots) <= 1
            /\ \A i \in 1..Len(body) : body[i] \in Digits \cup {"."}
            /\ Len(int) + Len(frac) >= 1
        frac2  == Prefix(frac \o <<"0", "0">>, 2)
        mag    == 100 * DigitsVal(int) + DigitsVal(frac2)
    IN  IF wellFormed
        THEN [ok |-> TRUE,
              val |-> IF signed /\ cleaned[1] = "-" THEN 0 - mag ELSE mag]
        ELSE [ok |-> FALSE, val |-> 0]

\* the float returned, in hundredths
clean_currency_value(value) ==
    IF ~Truthy(value) \/ value \in NullStrings THEN 0
    ELSE ParseFloat(RemoveNoise(value)).val

\* re.match(r'\d{4}-\d{2}-\d{2}', date_str)
DatePrefix(t) ==
    /\ Len(t) >= 10
    /\ \A i \in {1, 2, 3, 4, 6, 7, 9, 10} : t[i] \in Digits
    /\ t[5] = "-" /\ t[8] = "-"

parse_date(date_str) ==
    IF ~Truthy(date_str) \/ date_str \in NullStrings THEN None
    ELSE IF DatePrefix(date_str) THEN date_str
    ELSE None

\* re.match(r'\d{4}-\d{2}-\d{2}T\d{2}:\d{2}:\d{2}', datetime_str)
DateTimePrefix(t) ==
    /\ Len(t) >= 19
    /\ DatePrefix(t)
    /\ t[11] = "T"
    /\ \A i \in {12, 13, 15, 16, 18, 19} : t[i] \in Digits
    /\ t[14] = ":" /\ t[17] = ":"

parse_datetime(datetime_str) ==
    IF ~Truthy(datetime_str) \/ datetime_str \in NullStrings THEN None
    ELSE IF DateTimePrefix(datetime_str) THEN datetime_str
    ELSE None

-----------------------------------------------------------------------------
(* workflows/ingestion_workflow.py : fetch_pdf_from_url *)

\* str(n) for n >= 0
RECURSIVE IntStr(_)
IntStr(n) ==
    LET d == CHOOSE c \in Digits : DigitVal(c) = n % 10
    IN  IF n < 10 THEN <<d>> ELSE Append(IntStr(n \div 10), d)

\* f"\n--- Page {page_num + 1} ---\n{page_text}"
PageBlock(page_num, page_text) ==
    <<"\n", "-", "-", "-", " ", "P", "a", "g", "e", " ">> \o IntStr(page_num + 1)
        \o <<" ", "-", "-", "-", "\n">> \o page_text

\* raw_text += ... for every page whose extracted text is not empty
RECURSIVE PagesText(_, _)
PagesText(pages, page_num) ==
    IF page_num >= Len(pages) THEN <<>>
    ELSE (IF Truthy(pages[page_num + 1])
          THEN PageBlock(page_num, pages[page_num + 1]) ELSE <<>>)
         \o PagesText(pages, page_num + 1)

\* End of the match of (\n\s*)+\n that starts at index i, 0 when there is
\* none: the pattern matches a run of whitespace that begins and ends with
\* a newline, and the greedy quantifiers extend it to the last newline of
\* the whitespace run.
BlankLinesEnd(text, i) ==
    IF text[i] = "\n" /\ LastNewline(text, i) > i
    THEN LastNewline(text, i) ELSE 0

\* index j lies inside a match, after the match's first character
InsideBlankLines(text, j) ==
    \E i \in 1..(j - 1) : BlankLinesEnd(text, i) >= j

\* re.sub(r'(\n\s*)+\n', '\n', raw_text) over text[lo..hi]: of every match
\* only the first newline stays
RECURSIVE CollapseRange(_, _, _)
CollapseRange(text, lo, hi) ==
    IF lo > hi THEN <<>>
    ELSE IF lo = hi
    THEN (IF InsideBlankLines(text, lo) THEN <<>> ELSE <<text[lo]>>)
    ELSE CollapseRange(text, lo, (lo + hi) \div 2)
            \o CollapseRange(text, (lo + hi) \div 2 + 1, hi)

\* a fetch stage that stores the text as extracted
CollapseNothing(text) == text

CollapseBlankLines(text) == CollapseRange(text, 1, Len(text))

FetchErrorMsg == "PDF fetch error: request or PDF parsing failed"

\* outcome = [kind |-> "exception"] or [kind |-> "pages", pages |-> <<text>>]
fetch_pdf_from_url(ctx, outcome) ==
    IF outcome.kind = "exception"
    THEN Put(ctx, "error", FetchErrorMsg)
    ELSE Put(Put(ctx, "raw_text",
                 CollapseBlankLines(PagesText(outcome.pages, 0))),
             "error", "")

-----------------------------------------------------------------------------
(* workflows/ingestion_workflow.py : extract_tender_details *)

\* if state.get('error'): return state
ErrorSet(ctx) == Get(ctx, "error", "") # ""

ExtractPrefixLen == 25000

\* less than 1 lakh, in hundredths
SmallValueFloor == 100000 * 100

\* if value in ["null", "None", "N/A", "Not found", "Not specified", ""]
NormalizeNulls(tender_details) ==
    [k \in DOMAIN tender_details |->
        IF tender_details[k] \in NullStrings \cup {<<>>}
        THEN None ELSE tender_details[k]]

\* lines 229-237: the regex value when there is one, else the two swapped
SwapWith(v, regex_value) ==
    IF Truthy(regex_value)
    THEN [raw |-> regex_value,
          numeric |-> clean_currency_value(regex_value),
          emd |-> v.emd]
    ELSE [raw |-> v.emd,
          numeric |-> clean_currency_value(v.emd),
          emd |-> v.raw]

\* the "potential swap" validation; v = [raw, numeric, emd]
SwapCorrection(v, raw_text) ==
    IF Truthy(v.raw) /\ Truthy(v.emd)
       /\ clean_currency_value(v.emd) > v.numeric /\ v.numeric > 0
    THEN SwapWith(v, extract_project_value_from_text(raw_text))
    ELSE v

\* lines 243-248: the regex value when it is the larger one
SmallValueWith(v, regex_value, regex_numeric) ==
    IF Truthy(regex_value) /\ regex_numeric > v.numeric
    THEN [v EXCEPT !.raw = regex_value, !.numeric = regex_numeric]
    ELSE v

\* the "project value seems too small" correction
SmallValueCorrection(v, raw_text) ==
    IF v.numeric < SmallValueFloor
    THEN SmallValueWith(v, extract_project_value_from_text(raw_text),
                        clean_currency_value(
                            extract_project_value_from_text(raw_text)))
    ELSE v

NullDetails ==
    [tender_id |-> None, project_title |-> None, issuing_authority |-> None,
     location |-> None, project_value |-> None, emd_amount |-> None,
     summary |-> None]

DefaultStructured ==
    [file_name |-> <<"T", "e", "n", "d", "e", "r", " ", "D", "o", "c", "u", "m", "e", "n", "t">>, tender_value |-> 0]

\* a fallback that reports the failure through the error field
ExtractFallbackFatal(ctx) ==
    Put(Put(Put(ctx, "extracted_tender_details", NullDetails),
            "structured_data", DefaultStructured),
        "error", "Extraction error: details could not be extracted")

\* the assignments of the except branch
ExtractFallback(ctx) ==
    Put(Put(ctx, "extracted_tender_details", NullDetails),
        "structured_data", DefaultStructured)

\* the assignments of the branch taken when the response holds no {...}
ExtractNoJson(ctx) ==
    Put(Put(ctx, "extracted_tender_details", NullDetails),
        "structured_data", DefaultStructured)

\* project_value_raw, project_value_numeric and emd_amount_raw as extracted
LlmValues(tender_details) ==
    [raw |-> Get(tender_details, "project_value", None),
     numeric |-> clean_currency_value(
                    Get(tender_details, "project_value", None)),
     emd |-> Get(tender_details, "emd_amount", None)]

\* the two dicts stored from tender_details and the corrected values v
StoreDetails(ctx, tender_details, v) ==
    Put(Put(ctx, "extracted_tender_details",
            [tender_id |-> Get(tender_details, "tender_id", None),
             project_title |-> Get(tender_details, "project_title", None),
             issuing_authority |->
                 Get(tender_details, "issuing_authority", None),
             location |-> Get(tender_details, "location", None),
             project_value |-> v.raw,
             emd_amount |-> v.emd,
             summary |-> Get(tender_details, "summary", None)]),
        "structured_data",
        [file_name |-> Get(tender_details, "project_title",
                           <<"T", "e", "n", "d", "e", "r", " ", "D", "o", "c", "u", "m", "e", "n", "t">>),
         tender_date |-> parse_date(Get(tender_details, "tender_date", None)),
         submission_deadline |->
             parse_datetime(Get(tender_details, "submission_deadline", None)),
         tender_status |-> "Open",
         tender_value |-> v.numeric])

\* the corrections, then the stores
CorrectAndStore(ctx, tender_details, raw_text) ==
    StoreDetails(ctx, tender_details,
                 SmallValueCorrection(
                     SwapCorrection(LlmValues(tender_details), raw_text),
                     raw_text))

\* the state after the assignments of the parsed-JSON branch
ExtractParsed(ctx, parsed) ==
    CorrectAndStore(ctx, NormalizeNulls(parsed),
                    Prefix(ctx.raw_text, ExtractPrefixLen))

\* a summary log line that accepts None
SummaryLogNeverRaises(parsed) == FALSE

\* tender_details.get('summary', 'N/A')[:100] raises TypeError on None
SummaryLogRaises(parsed) ==
    Has(parsed, "summary") /\ NormalizeNulls(parsed).summary = None

ExtractSkips(ctx) == ErrorSet(ctx)

\* the logging after the stores: when it raises, the except branch runs
ExtractLogged(stored, parsed) ==
    IF SummaryLogRaises(parsed) THEN ExtractFallback(stored) ELSE stored

\* the stage ends in its no-JSON branch or in its except branch
ExtractFallsBack(llm) ==
    \/ llm.kind \in {"exception", "no_json", "bad_json"}
    \/ llm.kind = "json" /\ SummaryLogRaises(llm.details)

\* llm = [kind |-> "exception" | "no_json" | "bad_json"]
\*    or [kind |-> "json", details |-> the parsed object]
extract_tender_details(ctx, llm) ==
    IF ExtractSkips(ctx) THEN ctx
    ELSE IF llm.kind \in {"exception", "bad_json"} THEN ExtractFallback(ctx)
    ELSE IF llm.kind = "no_json" THEN ExtractNoJson(ctx)
    ELSE ExtractLogged(ExtractParsed(ctx, llm.details), llm.details)

-----------------------------------------------------------------------------
(* workflows/ingestion_workflow.py : chunk_document *)

\* End of the match of \n\s*\n that starts at index i, 0 when there is none
ParagraphSepEnd(text, i) ==
    IF text[i] = "\n" /\ (\E j \in (i + 1)..RunEnd(text, i) : text[j] = "\n")
    THEN LastNewline(text, i) ELSE 0

\* the first index from i on at which a separator begins, 0 when there is
\* none
NextSep(text, i) ==
    IF \E j \in i..Len(text) : ParagraphSepEnd(text, j) > 0
    THEN MinOf({j \in i..Len(text) : ParagraphSepEnd(text, j) > 0})
    ELSE 0

\* re.split(r'\n\s*\n', raw_text): the pieces of text from index i on
RECURSIVE SplitFrom(_, _)
SplitFrom(text, i) ==
    IF NextSep(text, i) = 0 THEN <<SubSeq(text, i, Len(text))>>
    ELSE <<SubSeq(text, i, NextSep(text, i) - 1)>>
            \o SplitFrom(text, ParagraphSepEnd(text, NextSep(text, i)) + 1)

SplitParagraphs(text) == SplitFrom(text, 1)

\* the chunk dict appended to chunks
MakeChunk(chunk_index, current_chunk, file_url) ==
    [chunk_index |-> chunk_index,
     text |-> Strip(current_chunk),
     metadata |-> [chunk_size |-> Len(current_chunk), source |-> file_url]]

\* len(current_chunk) + len(para) + 1 > settings.MAX_CHUNK_SIZE and current_chunk
MustCloseChunk(current_chunk, para, max_chunk_size) ==
    /\ Len(current_chunk) + Len(para) + 1 > max_chunk_size
    /\ current_chunk # <<>>

\* a paragraph loop that never advances chunk_index
ChunkStepSameIndex(a, raw_para, max_chunk_size, file_url) ==
    LET para == Strip(raw_para)
    IN  IF para = <<>> THEN a
        ELSE IF MustCloseChunk(a.current_chunk, para, max_chunk_size)
        THEN [chunks |-> Append(a.chunks,
                           MakeChunk(a.chunk_index, a.current_chunk, file_url)),
              current_chunk |-> para \o <<"\n", "\n">>,
              chunk_index |-> a.chunk_index]
        ELSE [a EXCEPT !.current_chunk = a.current_chunk \o para \o <<"\n", "\n">>]

\* one iteration of the paragraph loop; a = [chunks, current_chunk, chunk_index]
ChunkStep(a, raw_para, max_chunk_size, file_url) ==
    LET para == Strip(raw_para)
    IN  IF para = <<>> THEN a
        ELSE IF MustCloseChunk(a.current_chunk, para, max_chunk_size)
        THEN [chunks |-> Append(a.chunks,
                           MakeChunk(a.chunk_index, a.current_chunk, file_url)),
              current_chunk |-> para \o <<"\n", "\n">>,
              chunk_index |-> a.chunk_index + 1]
        ELSE [a EXCEPT !.current_chunk = a.current_chunk \o para \o <<"\n", "\n">>]

RECURSIVE ChunkLoop(_, _, _, _, _)
ChunkLoop(a, paragraphs, k, max_chunk_size, file_url) ==
    IF k > Len(paragraphs) THEN a
    ELSE ChunkLoop(ChunkStep(a, paragraphs[k], max_chunk_size, file_url),
                   paragraphs, k + 1, max_chunk_size, file_url)

\* the chunk list built from raw_text
ChunksOf(raw_text, max_chunk_size, file_url) ==
    LET a == ChunkLoop([chunks |-> <<>>, current_chunk |-> <<>>,
                        chunk_index |-> 0],
                       SplitParagraphs(raw_text), 1, max_chunk_size, file_url)
    IN  IF Strip(a.current_chunk) # <<>>
        THEN Append(a.chunks, MakeChunk(a.chunk_index, a.current_chunk, file_url))
        ELSE a.chunks

ChunkSkips(ctx) == ErrorSet(ctx)

chunk_document(ctx, max_chunk_size) ==
    IF ChunkSkips(ctx) THEN ctx
    ELSE IF ~Has(ctx, "raw_text")
    THEN Put(ctx, "error", "Chunking error: 'raw_text'")
    ELSE Put(ctx, "chunks", ChunksOf(ctx.raw_text, max_chunk_size, ctx.file_url))

-----------------------------------------------------------------------------
(* utils/text_processing.py : preprocess_text *)

\* string.punctuation
Punctuation ==
    { "!", "\"", "#", "$", "%", "&", "'", "(", ")", "*", "+", ",",
      "-", ".", "/", ":", ";", "<", "=", ">", "?", "@", "[", "\\",
      "]", "^", "_", "<backtick>", "{", "|", "}", "~" }

STOPWORDS ==
    { <<"t", "h", "a", "t">>, <<"t", "h", "i", "s">>,
      <<"w", "i", "t", "h">>, <<"f", "r", "o", "m">>,
      <<"h", "a", "v", "e">>, <<"w", "i", "l", "l">>,
      <<"y", "o", "u", "r">>, <<"t", "h", "e", "i", "r">>,
      <<"w", "h", "i", "c", "h">>, <<"w", "e", "r", "e">>,
      <<"b", "e", "e", "n">>, <<"t", "h", "e", "r", "e">>,
      <<"w", "o", "u", "l", "d">>, <<"a", "b", "o", "u", "t">>,
      <<"s", "h", "o", "u", "l", "d">>, <<"c", "o", "u", "l", "d">>,
      <<"t", "h", "e", "s", "e">>, <<"t", "h", "o", "s", "e">>,
      <<"s", "h", "a", "l", "l">>, <<"m", "u", "s", "t">>,
      <<"a", "n", "d">>, <<"t", "h", "e">>,
      <<"f", "o", "r">>, <<"i", "s">>,
      <<"i", "n">>, <<"i", "t">>,
      <<"t", "o">>, <<"o", "f">>,
      <<"a", "s">>, <<"a", "t">>,
      <<"b", "y">>, <<"a", "n">>,
      <<"a", "r", "e">>, <<"o", "n">>,
      <<"i", "f">>, <<"o", "r">>,
      <<"n", "o", "t">>, <<"b", "e">>,
      <<"a", "l", "l">> }

\* str.split(): the maximal runs of characters that are not whitespace
RECURSIVE SplitWords(_, _)
SplitWords(text, i) ==
    LET start == SkipClass(text, i, Whitespace)
        stop  == IF \E j \in start..Len(text) : text[j] \in Whitespace
                 THEN CHOOSE j \in start..Len(text) :
                         /\ text[j] \in Whitespace
                         /\ \A k \in start..(j - 1) : text[k] \notin Whitespace
                 ELSE Len(text) + 1
    IN  IF start > Len(text) THEN <<>>
        ELSE <<SubSeq(text, start, stop - 1)>> \o SplitWords(text, stop)

KeepToken(token) == token \notin STOPWORDS /\ Len(token) > 2

preprocess_text(text) ==
    IF text = <<>> THEN <<>>
    ELSE SelectSeq(
           SplitWords(SelectSeq(LowerText(text),
                                LAMBDA c : c \notin Punctuation), 1),
           KeepToken)

-----------------------------------------------------------------------------
(* services/embedding_service.py : generate_sparse_embedding *)

\* dict(Counter(tokens))
generate_sparse_embedding(tokens) ==
    [t \in {tokens[i] : i \in 1..Len(tokens)} |->
        Cardinality({i \in 1..Len(tokens) : tokens[i] = t})]

-----------------------------------------------------------------------------
(* workflows/ingestion_workflow.py : generate_hybrid_embeddings *)

RECURSIVE SumLens(_)
SumLens(docs) == IF docs = <<>> THEN 0 ELSE Len(Head(docs)) + SumLens(Tail(docs))

\* BM25Okapi(tokenized_chunks): avgdl (as a fraction) and doc_len
Bm25Corpus(tokenized_chunks) ==
    [avg_doc_len |-> [num |-> SumLens(tokenized_chunks),
                      den |-> Len(tokenized_chunks)],
     doc_lens |-> [i \in 1..Len(tokenized_chunks) |-> Len(tokenized_chunks[i])]]

\* if tokenized_chunks and any(len(t) > 0 for t in tokenized_chunks)
HasTokens(tokenized_chunks) ==
    \E i \in 1..Len(tokenized_chunks) : Len(tokenized_chunks[i]) > 0

\* f"Embedding error: {str(e)}"
\* an except branch that leaves the error field empty
EmbeddingErrorMsgNone(res) == ""

EmbeddingErrorMsg(res) ==
    IF res.value = "Text too short after reduction"
    THEN "Embedding error: Text too short after reduction"
    ELSE "Embedding error: Failed to generate embedding after retries"

\* if state.get('error') or not state.get('chunks'): return state
EmbedSkips(ctx) == ErrorSet(ctx) \/ Get(ctx, "chunks", <<>>) = <<>>

\* The results of executor.map over chunk_texts, item i answered by the
\* provider outcomes scripts[i]; every worker order gives these results in
\* input order.
DenseResults(chunk_texts, scripts, max_retries) ==
    [i \in 1..Len(chunk_texts) |->
        generate_dense_embedding(chunk_texts[i], scripts[i], max_retries)]

generate_hybrid_embeddings(ctx, scripts, max_retries) ==
    IF EmbedSkips(ctx) THEN ctx
    ELSE
      LET chunk_texts == [i \in 1..Len(ctx.chunks) |-> ctx.chunks[i].text]
          dense == DenseResults(chunk_texts, scripts, max_retries)
          failed == {i \in 1..Len(dense) : dense[i].status = "raise"}
          tokenized_chunks ==
              [i \in 1..Len(chunk_texts) |-> preprocess_text(chunk_texts[i])]
          structured ==
              IF HasTokens(tokenized_chunks)
              THEN Put(Get(ctx, "structured_data", <<>>), "bm25_corpus",
                       Bm25Corpus(tokenized_chunks))
              ELSE Get(ctx, "structured_data", <<>>)
          hybrid_embeddings ==
              [i \in 1..Len(chunk_texts) |->
                  [chunk_index |-> i - 1,
                   dense |-> dense[i].value,
                   sparse |-> generate_sparse_embedding(tokenized_chunks[i]),
                   tokens |-> tokenized_chunks[i]]]
      IN  IF failed # {}
          THEN Put(ctx, "error", EmbeddingErrorMsg(dense[MinOf(failed)]))
          ELSE LET withStats ==
                       IF HasTokens(tokenized_chunks)
                       THEN Put(ctx, "structured_data", structured) ELSE ctx
               IN  Put(withStats, "hybrid_embeddings", hybrid_embeddings)

-----------------------------------------------------------------------------
(* config/settings.py *)

DefaultMaxRetries == 3
DefaultMaxChunkSize == 500

-----------------------------------------------------------------------------
(* repositories and database/connection.py : every repository call is one  *)
(* transaction, committed when its "with get_db_session()" block exits and *)
(* rolled back when the block raises.                                      *)

\* db.query(TenderProject).filter(project_id == ...).first(): tender_id or 0
FindProject(projects, project_id) ==
    IF \E p \in projects : p.project_id = project_id
    THEN (CHOOSE p \in projects : p.project_id = project_id).tender_id
    ELSE 0

\* project_id = Column(Integer, unique=True, nullable=False)
ProjectInsertAllowed(projects, project) ==
    ~\E p \in projects : p.project_id = project.project_id

\* the row added by TenderProjectRepository.create
NewProjectRow(project, tender_id) ==
    [tender_id |-> tender_id,
     project_id |-> project.project_id,
     tender_number |-> project.tender_number,
     tender_date |-> project.tender_date,
     submission_deadline |-> project.submission_deadline,
     tender_status |-> project.tender_status,
     tender_value |-> project.tender_value]

\* the update path of TenderProjectRepository.create
UpdateProjectRows(projects, tender_id, project) ==
    {IF p.tender_id = tender_id
     THEN [p EXCEPT !.tender_number = project.tender_number,
                    !.tender_date = project.tender_date,
                    !.submission_deadline = project.submission_deadline,
                    !.tender_status = project.tender_status,
                    !.tender_value = project.tender_value]
     ELSE p : p \in projects}

\* file_name = Column(Text, nullable=False)
FileInsertAllowed(file) == file.file_name # None

\* the row added by TenderFileRepository.create
NewFileRow(file, tender_file_id) ==
    [tender_file_id |-> tender_file_id,
     tender_id |-> file.tender_id,
     file_name |-> file.file_name,
     file_path |-> file.file_path,
     file_type |-> file.file_type,
     bm25_corpus |-> file.bm25_corpus]

\* a bulk insert that files every row under the first document
NewChunkRowsFirstFile(chunks, first_id) ==
    {[id |-> first_id + i - 1,
      tender_file_id |-> 1,
      chunk_index |-> chunks[i].chunk_index,
      chunk_text |-> chunks[i].chunk_text,
      chunk_metadata |-> chunks[i].chunk_metadata,
      dense_embedding |-> chunks[i].dense_embedding,
      sparse_embedding |-> chunks[i].sparse_embedding,
      bm25_tokens |-> chunks[i].bm25_tokens] : i \in 1..Len(chunks)}

\* the rows added by TenderChunkRepository.bulk_create
NewChunkRows(chunks, first_id) ==
    {[id |-> first_id + i - 1,
      tender_file_id |-> chunks[i].tender_file_id,
      chunk_index |-> chunks[i].chunk_index,
      chunk_text |-> chunks[i].chunk_text,
      chunk_metadata |-> chunks[i].chunk_metadata,
      dense_embedding |-> chunks[i].dense_embedding,
      sparse_embedding |-> chunks[i].sparse_embedding,
      bm25_tokens |-> chunks[i].bm25_tokens] : i \in 1..Len(chunks)}

-----------------------------------------------------------------------------
(* workflows/ingestion_workflow.py : store_in_database *)

DbErrorQuery == "Database error: project query failed"
DbErrorProject == "Database error: project write failed"
DbErrorFile == "Database error: file insert failed"
DbErrorChunks == "Database error: chunk bulk insert failed"
\* the IntegrityError of a tender_files row whose file_name is None
DbErrorNotNull == "Database error: null value in column file_name violates not-null constraint"
\* the IntegrityError of a second insert of one project_id
DbErrorDuplicate == "Database error: duplicate key value violates unique constraint"
DatabaseErrors ==
    {DbErrorQuery, DbErrorProject, DbErrorFile, DbErrorChunks, DbErrorDuplicate,
     DbErrorNotNull}

\* a persist stage that runs whatever the error field holds
StoreNeverSkips(ctx) == FALSE

\* if state.get('error'): return state
StoreSkips(ctx) == ErrorSet(ctx)

\* project = TenderProject(...)
ProjectOf(ctx) ==
    LET data == Get(ctx, "structured_data", <<>>)
    IN  [project_id |-> ctx.project_id,
         tender_number |-> Get(ctx, "tender_number", <<"N", "/", "A">>),
         tender_date |-> Get(data, "tender_date", None),
         submission_deadline |-> Get(data, "submission_deadline", None),
         tender_status |-> Get(data, "tender_status", "Open"),
         tender_value |-> Get(data, "tender_value", 0)]

\* file = TenderFile(...)
FileOf(ctx) ==
    LET data == Get(ctx, "structured_data", <<>>)
    IN  [tender_id |-> ctx.tender_id,
         file_name |-> Get(data, "file_name", <<"U", "n", "t", "i", "t", "l", "e", "d">>),
         file_path |-> ctx.file_url,
         file_type |-> "pdf",
         bm25_corpus |-> Get(data, "bm25_corpus", <<>>)]

\* db_chunks: zip(state.get('chunks', []), state.get('hybrid_embeddings', []))
DbChunksOf(ctx) ==
    LET chunks == Get(ctx, "chunks", <<>>)
        embs   == Get(ctx, "hybrid_embeddings", <<>>)
        n      == IF Len(chunks) < Len(embs) THEN Len(chunks) ELSE Len(embs)
    IN  [i \in 1..n |->
            [tender_file_id |-> ctx.tender_file_id,
             chunk_index |-> chunks[i].chunk_index,
             chunk_text |-> chunks[i].text,
             chunk_metadata |-> chunks[i].metadata,
             dense_embedding |-> Get(embs[i], "dense", <<>>),
             sparse_embedding |-> Get(embs[i], "sparse", <<>>),
             bm25_tokens |-> Get(embs[i], "tokens", <<>>)]]

-----------------------------------------------------------------------------
(* The compiled graph, services/ingestion_service.py, routers and agents *)

\* workflow.set_entry_point / workflow.add_edge
EntryPoint == "fetch_pdf"

\* a graph whose edges run chunk_document before extract_details
NextNodeChunkFirst(node) ==
    CASE node = "fetch_pdf" -> "chunk_document"
      [] node = "chunk_document" -> "extract_details"
      [] node = "extract_details" -> "generate_embeddings"
      [] node = "generate_embeddings" -> "store_in_db"
      [] node = "store_in_db" -> "END"

NextNode(node) ==
    CASE node = "fetch_pdf" -> "extract_details"
      [] node = "extract_details" -> "chunk_document"
      [] node = "chunk_document" -> "generate_embeddings"
      [] node = "generate_embeddings" -> "store_in_db"
      [] node = "store_in_db" -> "END"

\* the ghost record of a run that has called nothing yet
NoCalls ==
    [http |-> 0, llm |-> 0, embed |-> 0, db |-> 0, llm_fallback |-> FALSE,
     embed_raised |-> {}, projects |-> {}, files |-> {}, chunks |-> {}]

\* random.randint(10000, 99999)
ProjectIdLow == 10000
ProjectIdHigh == 99999
ProjectIds == {ProjectIdLow, ProjectIdHigh}

\* f"AUTO-{project_id}"
TenderNumber(project_id) == <<"A", "U", "T", "O", "-">> \o IntStr(project_id)

\* the inputs dict of IngestionService.ingest_document
ServiceInputs(project_id, file_url) ==
    [project_id |-> project_id,
     tender_number |-> TenderNumber(project_id),
     file_url |-> file_url,
     uploaded_by |-> "user",
     tender_date |-> None,
     submission_deadline |-> None]

\* a service that looks for the file identifier before the error field
ServiceResultIdFirst(final_state, project_id) ==
    IF Get(final_state, "tender_file_id", 0) # 0
    THEN [raised |-> FALSE,
          tender_file_id |-> final_state.tender_file_id,
          tender_id |-> Get(final_state, "tender_id", 0),
          project_id |-> project_id,
          chunks_created |-> Len(Get(final_state, "chunks", <<>>)),
          tender_details |-> Get(final_state, "extracted_tender_details", <<>>)]
    ELSE [raised |-> TRUE, message |-> Get(final_state, "error", "")]

\* IngestionService.ingest_document after the workflow returned
ServiceResult(final_state, project_id) ==
    IF ErrorSet(final_state)
    THEN [raised |-> TRUE, message |-> final_state.error]
    ELSE IF Get(final_state, "tender_file_id", 0) = 0
    THEN [raised |-> TRUE, message |-> "Workflow did not return a file ID"]
    ELSE LET tender_details ==
                 Get(final_state, "extracted_tender_details", <<>>)
         IN  [raised |-> FALSE,
              tender_file_id |-> final_state.tender_file_id,
              tender_id |-> Get(final_state, "tender_id", 0),
              project_id |-> project_id,
              chunks_created |-> Len(Get(final_state, "chunks", <<>>)),
              tender_details |->
                  [k \in DOMAIN NullDetails |-> Get(tender_details, k, None)]]

\* routers/ingestion_router.py : the IngestResponse of POST /ingest
RouterResponse(result) ==
    IF result.raised
    THEN [tender_file_id |-> 0, status |-> "failed",
          message |-> result.message, tender_details |-> None]
    ELSE [tender_file_id |-> result.tender_file_id, status |-> "success",
          message |-> "Document ingested successfully",
          tender_details |-> result.tender_details]

\* agents/ingestion_agent.py : IngestionAgent.process, then BaseAgent.execute
AgentResponse(final_state) ==
    IF ErrorSet(final_state)
    THEN [success |-> FALSE, error |-> final_state.error,
          agent |-> "IngestionAgent"]
    ELSE [success |-> TRUE,
          tender_file_id |-> Get(final_state, "tender_file_id", 0),
          tender_id |-> Get(final_state, "tender_id", 0),
          project_id |-> Get(final_state, "project_id", 0),
          chunks_created |-> Len(Get(final_state, "chunks", <<>>)),
          agent |-> "IngestionAgent"]

-----------------------------------------------------------------------------
(* Inputs of the ingestion runs *)

\* what the download and PyPDF2 give: an exception or the text of each page
RunFetches ==
    { [kind |-> "exception"],
      [kind |-> "pages", pages |-> <<>>],
      [kind |-> "pages", pages |-> << <<"R", "o", "a", "d", " ", "w", "o", "r", "k", "s", ".", "\n", "\n", "T", "o", "t", "a", "l", " ", "E", "s", "t", "i", "m", "a", "t", "e", "d", " ", "C", "o", "s", "t", ":", " ", "R", "s", ".", " ", "7", "5", ",", "0", "0", ",", "0", "0", "0">> >>] }

\* what the extraction call gives
RunLlms ==
    { [kind |-> "exception"], [kind |-> "no_json"], [kind |-> "bad_json"],
      [kind |-> "json", details |->
          [tender_id |-> <<"T", "-", "1">>,
           project_title |-> <<"R", "o", "a", "d">>,
           project_value |-> <<"5", "0", ",", "0", "0", "0">>,
           emd_amount |-> <<"2", ",", "0", "0", ",", "0", "0", "0">>,
           summary |-> <<"R", "o", "a", "d", " ", "w", "o", "r", "k", "s">>,
           tender_date |-> <<"2", "0", "2", "4", "-", "0", "1", "-", "3", "1">>,
           submission_deadline |-> <<"N", "/", "A">>]],
      [kind |-> "json", details |->
          [project_title |-> <<"N", "o", "t", " ", "f", "o", "u", "n", "d">>,
           project_value |-> <<"R", "s", ".", " ", "5", "0", ",", "0", "0", "0">>,
           summary |-> <<"R", "o", "a", "d", " ", "w", "o", "r", "k", "s">>]],
      [kind |-> "json", details |->
          [project_title |-> <<"R", "o", "a", "d">>, summary |-> None]] }

\* what the provider does on the calls for one chunk: answers; fails once;
\* rejects the payload; fails on every attempt
RunScripts ==
    { <<>>, <<"error">>, <<"too_large">>, <<"error", "error", "error">> }

FileUrl(r) == r

-----------------------------------------------------------------------------
(* The ingestion runs *)

SetRun(f, r, v) == [f EXCEPT ![r] = v]

\* the state of the ingestion side before any request
InitRuns ==
    /\ pc = [r \in Runs |-> "idle"]
    /\ state = [r \in Runs |-> <<>>]
    /\ existing = [r \in Runs |-> 0]
    /\ response = [r \in Runs |-> <<>>]
    /\ hist = [r \in Runs |-> <<>>]
    /\ trace = [r \in Runs |-> NoCalls]
    /\ tender_projects = {}
    /\ tender_files = {}
    /\ tender_chunks = {}
    /\ next_id = [tender_id |-> 1, tender_file_id |-> 1, chunk_id |-> 1]

\* POST /ingest -> IngestionService.ingest_document: project_id is drawn,
\* the inputs are built and the workflow is invoked
Start(r) ==
    /\ pc[r] = "idle"
    /\ \E project_id \in ProjectIds :
          state' = SetRun(state, r, ServiceInputs(project_id, FileUrl(r)))
    /\ pc' = SetRun(pc, r, EntryPoint)
    /\ UNCHANGED <<settings, probe, existing, response, hist, trace, db>>

FetchPdf(r) ==
    /\ pc[r] = "fetch_pdf"
    /\ \E outcome \in RunFetches :
          state' = SetRun(state, r, fetch_pdf_from_url(state[r], outcome))
    /\ trace' = SetRun(trace, r, [trace[r] EXCEPT !.http = @ + 1])
    /\ hist' = SetRun(hist, r, Append(hist[r], "fetch_pdf"))
    /\ pc' = SetRun(pc, r, NextNode("fetch_pdf"))
    /\ UNCHANGED <<settings, probe, existing, response, db>>

ExtractDetails(r) ==
    /\ pc[r] = "extract_details"
    /\ IF ExtractSkips(state[r])
       THEN UNCHANGED <<state, trace>>
       ELSE \E llm \in RunLlms :
              /\ state' = SetRun(state, r, extract_tender_details(state[r], llm))
              /\ trace' = SetRun(trace, r, [trace[r] EXCEPT !.llm = @ + 1,
                                                            !.llm_fallback = ExtractFallsBack(llm)])
    /\ hist' = SetRun(hist, r, Append(hist[r], "extract_details"))
    /\ pc' = SetRun(pc, r, NextNode("extract_details"))
    /\ UNCHANGED <<settings, probe, existing, response, db>>

ChunkDocument(r) ==
    /\ pc[r] = "chunk_document"
    /\ state' = SetRun(state, r,
                       chunk_document(state[r], settings.MAX_CHUNK_SIZE))
    /\ hist' = SetRun(hist, r, Append(hist[r], "chunk_document"))
    /\ pc' = SetRun(pc, r, NextNode("chunk_document"))
    /\ UNCHANGED <<settings, probe, existing, response, trace, db>>

\* the chunks whose generate_dense_embedding call raised
RaisedChunks(ctx, scripts, max_retries) ==
    LET dense == DenseResults([i \in 1..Len(ctx.chunks) |-> ctx.chunks[i].text],
                              scripts, max_retries)
    IN  {i \in 1..Len(dense) : dense[i].status = "raise"}

GenerateEmbeddings(r) ==
    /\ pc[r] = "generate_embeddings"
    /\ IF EmbedSkips(state[r])
       THEN UNCHANGED <<state, trace>>
       ELSE \E scripts \in [1..Len(state[r].chunks) -> RunScripts] :
              /\ state' = SetRun(state, r,
                     generate_hybrid_embeddings(state[r], scripts,
                                                settings.MAX_RETRIES))
              /\ trace' = SetRun(trace, r,
                     [trace[r] EXCEPT
                         !.embed = @ + Len(state[r].chunks),
                         !.embed_raised = RaisedChunks(state[r], scripts,
                                                       settings.MAX_RETRIES)])
    /\ hist' = SetRun(hist, r, Append(hist[r], "generate_embeddings"))
    /\ pc' = SetRun(pc, r, NextNode("generate_embeddings"))
    /\ UNCHANGED <<settings, probe, existing, response, db>>

\* the except branch of store_in_database: the node ends with the error set
StoreFails(r, msg) ==
    /\ state' = SetRun(state, r, Put(state[r], "error", msg))
    /\ pc' = SetRun(pc, r, NextNode("store_in_db"))

\* store_in_database up to the existence query of project_repo.create
StoreBegin(r) ==
    /\ pc[r] = "store_in_db"
    /\ hist' = SetRun(hist, r, Append(hist[r], "store_in_db"))
    /\ IF StoreSkips(state[r])
       THEN /\ pc' = SetRun(pc, r, NextNode("store_in_db"))
            /\ UNCHANGED <<state, trace, existing>>
       ELSE /\ trace' = SetRun(trace, r, [trace[r] EXCEPT !.db = @ + 1])
            /\ \E fail \in BOOLEAN :
                 IF fail
                 THEN StoreFails(r, DbErrorQuery) /\ UNCHANGED existing
                 ELSE /\ existing' = SetRun(existing, r,
                             FindProject(tender_projects, state[r].project_id))
                      /\ pc' = SetRun(pc, r, "store_in_db:project")
                      /\ UNCHANGED state
    /\ UNCHANGED <<settings, probe, response, db>>

\* project_repo.create: the insert or the update, flushed and committed
StoreProject(r) ==
    /\ pc[r] = "store_in_db:project"
    /\ LET project == ProjectOf(state[r])
       IN  \E fail \in BOOLEAN :
             IF fail
             THEN /\ StoreFails(r, DbErrorProject)
                  /\ UNCHANGED <<db, trace>>
             ELSE IF existing[r] # 0
             THEN /\ tender_projects' =
                        UpdateProjectRows(tender_projects, existing[r], project)
                  /\ state' = SetRun(state, r,
                                     Put(state[r], "tender_id", existing[r]))
                  /\ trace' = SetRun(trace, r,
                        [trace[r] EXCEPT !.projects = @ \cup {existing[r]}])
                  /\ pc' = SetRun(pc, r, "store_in_db:file")
                  /\ UNCHANGED <<tender_files, tender_chunks, next_id>>
             ELSE IF ~ProjectInsertAllowed(tender_projects, project)
             THEN /\ StoreFails(r, DbErrorDuplicate)
                  /\ next_id' = [next_id EXCEPT !.tender_id = @ + 1]
                  /\ UNCHANGED <<tender_projects, tender_files, tender_chunks,
                                 trace>>
             ELSE /\ tender_projects' = tender_projects \cup
                        {NewProjectRow(project, next_id.tender_id)}
                  /\ next_id' = [next_id EXCEPT !.tender_id = @ + 1]
                  /\ state' = SetRun(state, r,
                        Put(state[r], "tender_id", next_id.tender_id))
                  /\ trace' = SetRun(trace, r,
                        [trace[r] EXCEPT !.projects = @ \cup {next_id.tender_id}])
                  /\ pc' = SetRun(pc, r, "store_in_db:file")
                  /\ UNCHANGED <<tender_files, tender_chunks>>
    /\ UNCHANGED <<settings, probe, existing, response, hist>>

\* file_repo.create: the insert, flushed and committed
StoreFile(r) ==
    /\ pc[r] = "store_in_db:file"
    /\ LET file == FileOf(state[r])
       IN  \E fail \in BOOLEAN :
             IF fail
             THEN /\ StoreFails(r, DbErrorFile)
                  /\ UNCHANGED <<db, trace>>
             ELSE IF ~FileInsertAllowed(file)
             THEN /\ StoreFails(r, DbErrorNotNull)
                  /\ next_id' = [next_id EXCEPT !.tender_file_id = @ + 1]
                  /\ UNCHANGED <<tender_projects, tender_files, tender_chunks,
                                 trace>>
             ELSE /\ tender_files' = tender_files \cup
                        {NewFileRow(file, next_id.tender_file_id)}
                  /\ next_id' = [next_id EXCEPT !.tender_file_id = @ + 1]
                  /\ state' = SetRun(state, r,
                        Put(state[r], "tender_file_id", next_id.tender_file_id))
                  /\ trace' = SetRun(trace, r,
                        [trace[r] EXCEPT !.files = @ \cup {next_id.tender_file_id}])
                  /\ pc' = SetRun(pc, r, "store_in_db:chunks")
                  /\ UNCHANGED <<tender_projects, tender_chunks>>
    /\ UNCHANGED <<settings, probe, existing, response, hist>>

\* f"Success: File ID {tender_file_id}, {len(db_chunks)} chunks"
DbStatus(tender_file_id, n) == [file_id |-> tender_file_id, chunks |-> n]

\* chunk_repo.bulk_create(db_chunks), then db_status
StoreChunks(r) ==
    /\ pc[r] = "store_in_db:chunks"
    /\ LET db_chunks == DbChunksOf(state[r])
           done == Put(state[r], "db_status",
                       DbStatus(state[r].tender_file_id, Len(db_chunks)))
       IN  IF db_chunks = <<>>
           THEN /\ state' = SetRun(state, r, done)
                /\ pc' = SetRun(pc, r, NextNode("store_in_db"))
                /\ UNCHANGED <<db, trace>>
           ELSE \E fail \in BOOLEAN :
                  IF fail
                  THEN /\ StoreFails(r, DbErrorChunks)
                       /\ UNCHANGED <<db, trace>>
                  ELSE /\ tender_chunks' = tender_chunks \cup
                             NewChunkRows(db_chunks, next_id.chunk_id)
                       /\ next_id' = [next_id EXCEPT
                                         !.chunk_id = @ + Len(db_chunks)]
                       /\ trace' = SetRun(trace, r,
                             [trace[r] EXCEPT !.chunks =
                                 @ \cup {next_id.chunk_id + i - 1 :
                                            i \in 1..Len(db_chunks)}])
                       /\ state' = SetRun(state, r, done)
                       /\ pc' = SetRun(pc, r, NextNode("store_in_db"))
                       /\ UNCHANGED <<tender_projects, tender_files>>
    /\ UNCHANGED <<settings, probe, existing, response, hist>>

\* the workflow returned: the service and the router build what the caller
\* receives
Finish(r) ==
    /\ pc[r] = "END"
    /\ response' = SetRun(response, r,
          RouterResponse(ServiceResult(state[r], state[r].project_id)))
    /\ pc' = SetRun(pc, r, "done")
    /\ UNCHANGED <<settings, probe, state, existing, hist, trace, db>>

Init ==
    /\ settings = [MAX_RETRIES |-> DefaultMaxRetries,
                   MAX_CHUNK_SIZE |-> DefaultMaxChunkSize]
    /\ probe = [op |-> "none"]
    /\ InitRuns

Next ==
    \E r \in Runs :
        \/ Start(r) \/ FetchPdf(r) \/ ExtractDetails(r)
        \/ ChunkDocument(r) \/ GenerateEmbeddings(r) \/ StoreBegin(r)
        \/ StoreProject(r) \/ StoreFile(r) \/ StoreChunks(r) \/ Finish(r)

Spec == Init /\ [][Next]_vars

-----------------------------------------------------------------------------
(* Inputs of the direct service calls *)

ServiceTextLens == {0, 60, 100, 199, 200, 450}

\* a text just over the embedding budget with a sentence break near its end
LongText == Rep("a", 9990) \o <<".", " ">> \o Rep("b", 20)

ServiceTexts == {Rep("a", n) : n \in ServiceTextLens} \cup {LongText}

BatchInputs ==
    { <<>>, <<Rep("a", 100)>>, <<Rep("a", 100), Rep("a", 200)>>,
      <<Rep("a", 200), Rep("a", 60), Rep("a", 100)>>,
      [i \in 1..12 |-> Rep("a", 100 + i)] }

-----------------------------------------------------------------------------
(* Specification of the embedding service called directly *)

InitService ==
    /\ settings \in [MAX_RETRIES : 0..MaxRetriesCfg,
                      MAX_CHUNK_SIZE : {DefaultMaxChunkSize}]
    /\ probe = [op |-> "none"]
    /\ InitRuns

CallDense ==
    /\ probe.op = "none"
    /\ \E text \in ServiceTexts, script \in Scripts(ScriptLen) :
          probe' = [op |-> "dense", len |-> Len(text), script |-> script,
                    out |-> generate_dense_embedding(text, script,
                                                     settings.MAX_RETRIES)]
    /\ UNCHANGED <<settings, db, runs>>

CallBatch ==
    /\ probe.op = "none"
    /\ \E texts \in BatchInputs, script \in Scripts(ScriptLen) :
          probe' = [op |-> "batch", texts |-> texts, script |-> script,
                    out |-> batch_generate_dense_embeddings(texts, script,
                                                     settings.MAX_RETRIES)]
    /\ UNCHANGED <<settings, db, runs>>

NextService == CallDense \/ CallBatch

SpecService == InitService /\ [][NextService]_vars

-----------------------------------------------------------------------------
(* repositories/tender_chunk_repository.py : hybrid_search.  Scores are in *)
(* hundredths (1.0 is 100) and combined scores in ten-thousandths.  The   *)
(* dense score (1 - cosine distance) and the lexical score (ts_rank) of a *)
(* row are computed by PostgreSQL; they reach the model as the two score  *)
(* tables of the query, dense_scores lacking the ids whose score is NULL. *)

ScoreUnit == 100

\* HYBRID_SEARCH_ALPHA and TOP_K_CHUNKS
DefaultAlpha == 70
DefaultTopK == 5

\* COALESCE(score, 0) over the LEFT JOIN on id
Coalesce(scores, id) == IF id \in DOMAIN scores THEN scores[id] ELSE 0

\* beta = 1 - alpha
Beta(alpha) == ScoreUnit - alpha

\* a query whose join drops the rows that have no dense score
CombinedScoreDenseOnly(id, dense_scores, bm25_scores, alpha) ==
    IF id \in DOMAIN dense_scores
    THEN dense_scores[id] * alpha + Coalesce(bm25_scores, id) * Beta(alpha)
    ELSE 0 - ScoreUnit * ScoreUnit

\* COALESCE(ds.dense_score, 0) * :alpha + COALESCE(bs.bm25_score, 0) * :beta
CombinedScore(id, dense_scores, bm25_scores, alpha) ==
    Coalesce(dense_scores, id) * alpha + Coalesce(bm25_scores, id) * Beta(alpha)

\* WHERE tc.tender_file_id = :file_id
FileRows(table, tender_file_id) ==
    {row \in table : row.tender_file_id = tender_file_id}

\* the sequences that list every row of rows once
Orderings(rows) ==
    {o \in [1..Cardinality(rows) -> rows] :
        \A i, j \in 1..Cardinality(rows) : i # j => o[i] # o[j]}

\* ORDER BY combined_score DESC: every ordering of the rows in which the
\* score never increases; rows of equal score come in any order
OrderByScoreDesc(rows, dense_scores, bm25_scores, alpha) ==
    {o \in Orderings(rows) :
        \A i \in 1..(Len(o) - 1) :
            CombinedScore(o[i].id, dense_scores, bm25_scores, alpha)
              >= CombinedScore(o[i + 1].id, dense_scores, bm25_scores, alpha)}

\* a LIMIT that returns one row less than asked for
LimitOneLess(results, top_k) ==
    SubSeq(results, 1, MinOf({top_k - 1, Len(results)}))

\* LIMIT :top_k
Limit(results, top_k) == SubSeq(results, 1, MinOf({top_k, Len(results)}))

\* for rank, row in enumerate(results, 1): ChunkSearchResult(...)
SearchResults(results, dense_scores, bm25_scores, alpha) ==
    [rank \in 1..Len(results) |->
        [chunk |-> results[rank],
         relevance_score |->
             CombinedScore(results[rank].id, dense_scores, bm25_scores, alpha),
         rank |-> rank]]

\* the result lists the query may return
hybrid_search(table, tender_file_id, dense_scores, bm25_scores, top_k, alpha) ==
    {SearchResults(Limit(o, top_k), dense_scores, bm25_scores, alpha) :
        o \in OrderByScoreDesc(FileRows(table, tender_file_id),
                               dense_scores, bm25_scores, alpha)}

-----------------------------------------------------------------------------
(* Specification of hybrid_search called directly *)

\* the chunk rows of document 1 (n of them) and one row of document 2
SearchTable(n) ==
    {[id |-> i, tender_file_id |-> 1, chunk_index |-> i - 1] : i \in 1..n}
        \cup {[id |-> n + 1, tender_file_id |-> 2, chunk_index |-> 0]}

\* the score tables over the rows of a document; a row without an entry
\* has a NULL score
ScoreTables(rows, values) ==
    UNION {[ids -> values] : ids \in SUBSET {row.id : row \in rows}}

DenseScoreValues == {50, 100}
LexicalScoreValues == {100}
SearchAlphas == {0, 50, DefaultAlpha, 100}
SearchTopKs == {1, 2, DefaultTopK}

\* the first search of a document
CallSearch ==
    /\ probe.op = "none"
    /\ \E n \in 0..MaxChunkRows, top_k \in SearchTopKs, alpha \in SearchAlphas :
         \E dense_scores \in ScoreTables(FileRows(SearchTable(n), 1),
                                         DenseScoreValues),
            bm25_scores \in ScoreTables(FileRows(SearchTable(n), 1),
                                        LexicalScoreValues) :
           \E out \in hybrid_search(SearchTable(n), 1, dense_scores,
                                    bm25_scores, top_k, alpha) :
              probe' = [op |-> "hybrid_search", n |-> n,
                        dense_scores |-> dense_scores,
                        bm25_scores |-> bm25_scores,
                        top_k |-> top_k, alpha |-> alpha, out |-> out]
    /\ UNCHANGED <<settings, db, runs>>

\* the same search once more
CallSearchAgain ==
    /\ probe.op = "hybrid_search"
    /\ \E out \in hybrid_search(SearchTable(probe.n), 1, probe.dense_scores,
                                probe.bm25_scores, probe.top_k, probe.alpha) :
          probe' = [probe EXCEPT !.op = "hybrid_search_again"]
                      @@ [again |-> out]
    /\ UNCHANGED <<settings, db, runs>>

NextSearch == CallSearch \/ CallSearchAgain

SpecSearch == Init /\ [][NextSearch]_vars

-----------------------------------------------------------------------------
(* routers/query_router.py, routers/summary_router.py and                 *)
(* services/streaming_service.py.  The request in progress is kept in     *)
(* probe: the HTTP status of the router, the position of the generator    *)
(* and the SSE events sent so far.                                        *)

\* TenderFileRepository.exists
FileExists(files, tender_file_id) ==
    \E f \in files : f.tender_file_id = tender_file_id

\* TenderChunkRepository.get_all_by_file_id: the rows in chunk_index order
get_all_by_file_id(table, tender_file_id) ==
    CHOOSE o \in Orderings(FileRows(table, tender_file_id)) :
        \A i \in 1..(Len(o) - 1) : o[i].chunk_index <= o[i + 1].chunk_index

\* _create_sse_event
SseEvent(event_type, data) == [event |-> event_type, data |-> data]

\* raise HTTPException(status_code=404, detail="Document not found")
NotFoundResponse(op, tender_file_id) ==
    [op |-> op, tender_file_id |-> tender_file_id, pc |-> "closed",
     status_code |-> 404, detail |-> "Document not found", events |-> <<>>,
     token_count |-> 0]

\* return StreamingResponse(...)
StreamingResponse(op, tender_file_id) ==
    [op |-> op, tender_file_id |-> tender_file_id, pc |-> "started",
     status_code |-> 200, detail |-> "", events |-> <<>>, token_count |-> 0]

\* the router of both endpoints: the exists check, then the stream
RouterCall(op, files, tender_file_id) ==
    IF ~FileExists(files, tender_file_id)
    THEN NotFoundResponse(op, tender_file_id)
    ELSE StreamingResponse(op, tender_file_id)

\* the document ids of the requests and the question asked
RequestFileIds == {1, 2}
Question == <<"c", "o", "s", "t", "?">>

\* POST /document/{tender_file_id}/query
QueryDocument ==
    /\ probe.op = "none"
    /\ \E tender_file_id \in RequestFileIds :
          probe' = RouterCall("query", tender_files, tender_file_id)
    /\ UNCHANGED <<settings, db, runs>>

\* POST /document/{tender_file_id}/summarize
SummarizeDocument ==
    /\ probe.op = "none"
    /\ \E tender_file_id \in RequestFileIds :
          probe' = RouterCall("summarize", tender_files, tender_file_id)
    /\ UNCHANGED <<settings, db, runs>>

\* except Exception as e: yield error event
StreamError(request, events, message) ==
    [request EXCEPT !.pc = "closed",
                    !.events = Append(events, SseEvent("error", message))]

\* stream_qa_response after retrieve_relevant_chunks returned
QaAfterSearch(request, events, search_results) ==
    IF search_results = <<>>
    THEN StreamError(request, events, "No relevant information found")
    ELSE [request EXCEPT !.pc = "generating",
             !.events = events \o <<SseEvent("status", "Found relevant sections"),
                                    SseEvent("status", "Generating answer")>>]
            @@ [chunks_used |-> Len(search_results),
                top_relevance |-> search_results[1].relevance_score]

\* stream_qa_response up to the call of the model: first status event,
\* query embedding, hybrid search, the test of the results
StreamQaSearch ==
    /\ probe.op = "query" /\ probe.pc = "started"
    /\ \E script \in RunScripts :
         LET events == Append(probe.events,
                              SseEvent("status", "Searching relevant sections"))
             embedded == generate_dense_embedding(Question, script,
                                                  settings.MAX_RETRIES)
             rows == FileRows(tender_chunks, probe.tender_file_id)
         IN  IF embedded.status = "raise"
             THEN probe' = StreamError(probe, events, embedded.value)
             ELSE \E dense_scores \in ScoreTables(rows, DenseScoreValues),
                     bm25_scores \in ScoreTables(rows, LexicalScoreValues) :
                    \E out \in hybrid_search(tender_chunks, probe.tender_file_id,
                                             dense_scores, bm25_scores,
                                             DefaultTopK, DefaultAlpha) :
                       probe' = QaAfterSearch(probe, events, out)
    /\ UNCHANGED <<settings, db, runs>>

\* stream_summary after get_all_chunks returned
SummaryAfterChunks(request, events, chunks) ==
    IF chunks = <<>>
    THEN StreamError(request, events, "No chunks found for file")
    ELSE [request EXCEPT !.pc = "generating",
             !.events = events \o <<SseEvent("status", "Processing chunks"),
                                    SseEvent("status", "Generating summary")>>]

\* stream_summary up to the call of the model
StreamSummaryChunks ==
    /\ probe.op = "summarize" /\ probe.pc = "started"
    /\ probe' = SummaryAfterChunks(probe,
                    Append(probe.events,
                           SseEvent("status", "Retrieving document chunks")),
                    get_all_by_file_id(tender_chunks, probe.tender_file_id))
    /\ UNCHANGED <<settings, db, runs>>

\* for chunk in response: yield token event
StreamToken ==
    /\ probe.op \in {"query", "summarize"} /\ probe.pc = "generating"
    /\ probe.token_count < MaxTokens
    /\ probe' = [probe EXCEPT !.token_count = @ + 1,
                              !.events = Append(@, SseEvent("token", "text"))]
    /\ UNCHANGED <<settings, db, runs>>

\* generate_content or the iteration of its response raises
StreamFails ==
    /\ probe.op \in {"query", "summarize"} /\ probe.pc = "generating"
    /\ probe' = StreamError(probe, probe.events, "model error")
    /\ UNCHANGED <<settings, db, runs>>

\* a generator that returns when the response is exhausted
StreamCompleteSilent(request) == [request EXCEPT !.pc = "closed"]

\* the response is exhausted: yield complete event
StreamComplete(request) ==
    [request EXCEPT !.pc = "closed",
                    !.events = Append(@, SseEvent("complete", "full_response"))]

StreamEnds ==
    /\ probe.op \in {"query", "summarize"} /\ probe.pc = "generating"
    /\ probe' = StreamComplete(probe)
    /\ UNCHANGED <<settings, db, runs>>

\* the ingestion run that shares the database with the requests
QueryRuns == {"r1"}

NextQuery ==
    \/ \E r \in QueryRuns :
          \/ Start(r) \/ FetchPdf(r) \/ ExtractDetails(r)
          \/ ChunkDocument(r) \/ GenerateEmbeddings(r) \/ StoreBegin(r)
          \/ StoreProject(r) \/ StoreFile(r) \/ StoreChunks(r) \/ Finish(r)
    \/ QueryDocument \/ SummarizeDocument
    \/ StreamQaSearch \/ StreamSummaryChunks
    \/ StreamToken \/ StreamFails \/ StreamEnds

SpecQuery == Init /\ [][NextQuery]_vars

-----------------------------------------------------------------------------
(* Specification of the chunk stage called directly: chunk_document,      *)
(* generate_hybrid_embeddings and the chunk rows of store_in_database are *)
(* applied to a raw_text of several paragraphs.                           *)

ParagraphTexts ==
    { <<"a">>, <<"b", "b", "b">>, <<"c", "c", "c", "c", "c", "c">> }

\* the paragraphs joined by blank lines
RECURSIVE JoinParagraphs(_)
JoinParagraphs(paragraphs) ==
    IF paragraphs = <<>> THEN <<>>
    ELSE IF Len(paragraphs) = 1 THEN paragraphs[1]
    ELSE paragraphs[1] \o <<"\n", "\n">> \o JoinParagraphs(Tail(paragraphs))

ParagraphLists == UNION {[1..k -> ParagraphTexts] : k \in 0..MaxParagraphs}

ChunkSizes == {4, 6, 9, 12}

\* the context the chunk stage receives
ChunkInput(raw_text) ==
    [raw_text |-> raw_text, file_url |-> "doc", tender_file_id |-> 1,
     project_id |-> ProjectIdLow]

\* the embedding stage on the chunked context, every chunk answered by script
EmbedChunked(chunked, script, max_retries) ==
    generate_hybrid_embeddings(chunked,
        [i \in 1..Len(Get(chunked, "chunks", <<>>)) |-> script], max_retries)

\* the rows bulk_create writes for the embedded context
RowsOf(embedded) ==
    IF ErrorSet(embedded) THEN {}
    ELSE NewChunkRows(DbChunksOf(embedded), 1)

ChunkProbe(paragraphs, max_chunk_size, chunked, embedded) ==
    [op |-> "chunk", paragraphs |-> paragraphs,
     max_chunk_size |-> max_chunk_size,
     chunks |-> Get(chunked, "chunks", <<>>),
     error |-> Get(embedded, "error", ""),
     rows |-> RowsOf(embedded)]

ChunkStages(paragraphs, max_chunk_size, script, chunked, max_retries) ==
    ChunkProbe(paragraphs, max_chunk_size, chunked,
               EmbedChunked(chunked, script, max_retries))

CallChunk ==
    /\ probe.op = "none"
    /\ \E paragraphs \in ParagraphLists, max_chunk_size \in ChunkSizes,
          script \in RunScripts :
          probe' = ChunkStages(paragraphs, max_chunk_size, script,
                      chunk_document(ChunkInput(JoinParagraphs(paragraphs)),
                                     max_chunk_size),
                      settings.MAX_RETRIES)
    /\ UNCHANGED <<settings, db, runs>>

NextChunk == CallChunk

SpecChunk == Init /\ [][NextChunk]_vars

-----------------------------------------------------------------------------
(* Specification of the parsed-JSON branch of extract_tender_details     *)
(* called directly on the values the extraction call may give            *)

ExtractProjectValues ==
    { None, <<"R", "s", ".", " ", "5", "0", ",", "0", "0", "0">>, <<"5", "0", ",", "0", "0", "0">>,
      <<"3", ",", "0", "0", ",", "0", "0", "0">>,
      <<"-", "5", ",", "0", "0", "0">> }

ExtractEmdAmounts ==
    { None, <<"R", "s", ".", " ", "2", ",", "0", "0", ",", "0", "0", "0">>,
      <<"2", ",", "0", "0", ",", "0", "0", "0">>, <<"1", "0", ",", "0", "0", "0">> }

ExtractTexts ==
    { <<"R", "o", "a", "d", " ", "w", "o", "r", "k", "s", ".">>,
      <<"R", "o", "a", "d", " ", "w", "o", "r", "k", "s", ".", " ", "T", "o", "t", "a", "l", " ", "E", "s", "t", "i", "m", "a", "t", "e", "d", " ", "C", "o", "s", "t", ":", " ", "R", "s", ".", " ", "7", "5", ",", "0", "0", ",", "0", "0", "0">>,
      <<"P", "r", "o", "j", "e", "c", "t", " ", "C", "o", "s", "t", ":", " ", "<rupee>", "9", ",", "0", "0", ",", "0", "0", "0">> }

ExtractDates == { None, <<"2", "0", "2", "4", "-", "0", "1", "-", "3", "1">>, <<"3", "1", "/", "0", "1", "/", "2", "0", "2", "4">> }

\* the JSON object of the response
ParsedDetails(project_value, emd_amount, tender_date) ==
    [project_title |-> <<"R", "o", "a", "d">>, project_value |-> project_value,
     emd_amount |-> emd_amount, tender_date |-> tender_date]

ExtractProbe(parsed, raw_text, out) ==
    [op |-> "extract", parsed |-> parsed, raw_text |-> raw_text,
     after_swap |-> SwapCorrection(LlmValues(NormalizeNulls(parsed)),
                                   Prefix(raw_text, ExtractPrefixLen)),
     details |-> out.extracted_tender_details,
     structured_data |-> out.structured_data]

CallExtract ==
    /\ probe.op = "none"
    /\ \E project_value \in ExtractProjectValues,
          emd_amount \in ExtractEmdAmounts,
          tender_date \in ExtractDates, raw_text \in ExtractTexts :
          probe' = ExtractProbe(
                      ParsedDetails(project_value, emd_amount, tender_date),
                      raw_text,
                      ExtractParsed([raw_text |-> raw_text, file_url |-> "doc"],
                          ParsedDetails(project_value, emd_amount, tender_date)))
    /\ UNCHANGED <<settings, db, runs>>

\* the summary values of the response; "absent" stands for a missing key
ExtractSummaries ==
    { <<"a", "b", "s", "e", "n", "t">>, None, <<"N", "/", "A">>,
      <<"R", "o", "a", "d", " ", "w", "o", "r", "k", "s">> }

WithSummary(parsed, summary) ==
    IF summary = <<"a", "b", "s", "e", "n", "t">> THEN parsed
    ELSE parsed @@ [summary |-> summary]

ExtractStageProbe(parsed, out) ==
    [op |-> "extract_stage", parsed |-> parsed,
     details |-> out.extracted_tender_details,
     structured_data |-> out.structured_data]

\* the whole stage on a response that holds a JSON object
ExtractStage(raw_text, parsed) ==
    ExtractStageProbe(parsed,
        extract_tender_details([raw_text |-> raw_text, file_url |-> "doc"],
                               [kind |-> "json", details |-> parsed]))

CallExtractStage ==
    /\ probe.op = "none"
    /\ \E project_value \in ExtractProjectValues,
          emd_amount \in ExtractEmdAmounts,
          summary \in ExtractSummaries, raw_text \in ExtractTexts :
          probe' = ExtractStage(raw_text,
                      WithSummary(ParsedDetails(project_value, emd_amount, None),
                                  summary))
    /\ UNCHANGED <<settings, db, runs>>

NextExtract == CallExtract \/ CallExtractStage

SpecExtract == Init /\ [][NextExtract]_vars

-----------------------------------------------------------------------------
(* Specification of the worker pool of generate_hybrid_embeddings: the    *)
(* futures of executor.map complete in any order, then the results are    *)
(* read and combined with the chunks.                                      *)

\* results read in the order the workers finished
MapResultsAsCompleted(results, completed) ==
    [k \in 1..Len(completed) |-> results[completed[k]]]

\* list(executor.map(fn, items)): the results in the order of the items
MapResults(results, completed) ==
    [i \in 1..Len(completed) |-> results[i]]

\* the zip of dense_embeddings, sparse_embeddings and tokenized_chunks
CombineEmbeddings(dense_embeddings, tokenized_chunks) ==
    [i \in 1..MinOf({Len(dense_embeddings), Len(tokenized_chunks)}) |->
        [chunk_index |-> i - 1,
         dense |-> dense_embeddings[i],
         sparse |-> generate_sparse_embedding(tokenized_chunks[i]),
         tokens |-> tokenized_chunks[i]]]

\* the chunks are handed to the pool
SubmitChunks ==
    /\ probe.op = "none"
    /\ \E paragraphs \in ParagraphLists, max_chunk_size \in ChunkSizes :
          /\ paragraphs # <<>>
          /\ probe' = [op |-> "pool",
                       chunks |-> ChunksOf(JoinParagraphs(paragraphs),
                                           max_chunk_size, "doc"),
                       completed |-> <<>>,
                       dense |-> <<>>, tokenized |-> <<>>]
    /\ UNCHANGED <<settings, db, runs>>

\* a worker finishes the item i it was given
WorkerCompletes ==
    /\ probe.op = "pool"
    /\ \E i \in 1..Len(probe.chunks) :
          /\ \A k \in 1..Len(probe.completed) : probe.completed[k] # i
          /\ probe' = [probe EXCEPT
                !.completed = Append(@, i),
                !.dense = @ @@ (i :> generate_dense_embedding(
                              probe.chunks[i].text, <<>>,
                              settings.MAX_RETRIES).value),
                !.tokenized = @ @@ (i :> preprocess_text(probe.chunks[i].text))]
    /\ UNCHANGED <<settings, db, runs>>

\* both result lists are read, combined and turned into the chunk rows
CollectResults ==
    /\ probe.op = "pool"
    /\ Len(probe.completed) = Len(probe.chunks)
    /\ probe' = [op |-> "pool_done", chunks |-> probe.chunks,
                 completed |-> probe.completed,
                 rows |-> NewChunkRows(DbChunksOf(
                     [tender_file_id |-> 1, chunks |-> probe.chunks,
                      hybrid_embeddings |-> CombineEmbeddings(
                          MapResults(probe.dense, probe.completed),
                          MapResults(probe.tokenized, probe.completed))]), 1)]
    /\ UNCHANGED <<settings, db, runs>>

NextPool == SubmitChunks \/ WorkerCompletes \/ CollectResults

SpecPool == Init /\ [][NextPool]_vars

-----------------------------------------------------------------------------
(* Specification of the fetch stage followed by the chunk stage, called   *)
(* directly on the page texts a PDF may give                              *)

PageChars == {"a", " ", "\n"}

PageTexts == UNION {[1..n -> PageChars] : n \in 0..MaxPageLen}

SecondPages == { <<"\n", "\n", "a">>, <<"a", "\n">> }

FetchedPages ==
    {<<page>> : page \in PageTexts}
        \cup {<<page, second>> : page \in PageTexts, second \in SecondPages}

FetchProbe(pages, max_chunk_size, fetched) ==
    [op |-> "fetch", pages |-> pages, max_chunk_size |-> max_chunk_size,
     raw_text |-> fetched.raw_text,
     chunks |-> chunk_document(fetched, max_chunk_size).chunks]

CallFetch ==
    /\ probe.op = "none"
    /\ \E pages \in FetchedPages, max_chunk_size \in ChunkSizes :
          probe' = FetchProbe(pages, max_chunk_size,
                      fetch_pdf_from_url([file_url |-> "doc"],
                                         [kind |-> "pages", pages |-> pages]))
    /\ UNCHANGED <<settings, db, runs>>

NextFetch == CallFetch

SpecFetch == Init /\ [][NextFetch]_vars

-----------------------------------------------------------------------------
(* chunk_text: overlapping windows over a text *)

\* the sentence terminators, in the order in which they are tried
SentenceEnds == << <<".", " ">>, <<"!", " ">>, <<"?", " ">>, <<"\n", "\n">> >>

\* a slice index as Python reads it: a negative index counts from the end,
\* and the result is clamped to 0..len(text)
SliceIndex(text, i) ==
    IF i < 0 THEN (IF Len(text) + i < 0 THEN 0 ELSE Len(text) + i)
    ELSE IF i > Len(text) THEN Len(text) ELSE i

\* text[start:end]
Slice(text, start, end) ==
    SubSeq(text, SliceIndex(text, start) + 1, SliceIndex(text, end))

\* text.rfind(punct, start, end): the 0-based position of the last
\* occurrence that lies within the slice, -1 when there is none
rfind(text, punct, start, end) ==
    LET hits == { i \in SliceIndex(text, start)
                          ..(SliceIndex(text, end) - Len(punct)) :
                    SubSeq(text, i + 1, i + Len(punct)) = punct }
    IN  IF hits = {} THEN -1 ELSE MaxOf(hits)

\* the for loop over the terminators from the k-th on: the first terminator
\* found in the window moves the end to one past its first character
RECURSIVE BreakAt(_, _, _, _)
BreakAt(text, start, end, k) ==
    IF k > Len(SentenceEnds) THEN end
    ELSE IF rfind(text, SentenceEnds[k], start, end) # -1
         THEN rfind(text, SentenceEnds[k], start, end) + 1
         ELSE BreakAt(text, start, end, k + 1)

\* the end of the window that begins at start
WindowEnd(text, start, max_size) ==
    IF start + max_size < Len(text)
    THEN BreakAt(text, start, start + max_size, 1)
    ELSE start + max_size

WindowChars == {"a", ".", " "}

WindowTexts == UNION {[1..n -> WindowChars] : n \in 0..MaxTextChars}

WindowSizes == {2, 3}

\* chunk_text(text, max_size, overlap) up to the loop: a text that fits is
\* returned as the only chunk
CallChunkText ==
    /\ probe.op = "none"
    /\ \E text \in WindowTexts, max_size \in WindowSizes :
         \E overlap \in 0..(max_size - 1) :
            probe' = [op |-> "chunk_text", text |-> text,
                      max_size |-> max_size, overlap |-> overlap,
                      start |-> 0,
                      pc |-> IF Len(text) <= max_size THEN "done" ELSE "loop",
                      chunks |-> IF Len(text) <= max_size THEN <<text>>
                                 ELSE <<>>]
    /\ UNCHANGED <<settings, db, runs>>

\* one iteration of the while loop
ChunkTextStep ==
    /\ probe.op = "chunk_text"
    /\ probe.pc = "loop"
    /\ probe.start < Len(probe.text)
    /\ Len(probe.chunks) < MaxWindows
    /\ probe' = [probe EXCEPT
                   !.chunks = Append(@, Strip(Slice(probe.text, probe.start,
                                  WindowEnd(probe.text, probe.start,
                                            probe.max_size)))),
                   !.start = WindowEnd(probe.text, probe.start,
                                       probe.max_size) - probe.overlap]
    /\ UNCHANGED <<settings, db, runs>>

\* the loop condition fails and the chunks are returned
ChunkTextReturn ==
    /\ probe.op = "chunk_text"
    /\ probe.pc = "loop"
    /\ probe.start >= Len(probe.text)
    /\ probe' = [probe EXCEPT !.pc = "done"]
    /\ UNCHANGED <<settings, db, runs>>

NextChunkText == CallChunkText \/ ChunkTextStep \/ ChunkTextReturn

SpecChunkText == Init /\ [][NextChunkText]_vars

-----------------------------------------------------------------------------
(* Properties of the embedding service *)

\* the outcome the provider gave to the k-th call of a direct call
Consumed(k) == IF k <= Len(probe.script) THEN probe.script[k] ELSE "ok"

CallsMade == Len(probe.out.sent)

ErrorsSeen == Cardinality({k \in 1..CallsMade : Consumed(k) = "error"})

\* number of halvings of a text of n characters that keep it at 100 or more
RECURSIVE Halvings(_)
Halvings(n) == IF n \div 2 < MinReducedLen THEN 0 ELSE 1 + Halvings(n \div 2)

\* the result of item i of the batch, computed on its own from the part of
\* the provider script that the earlier items left
RECURSIVE ScriptBefore(_)
ScriptBefore(i) ==
    IF i = 1 THEN probe.script
    ELSE generate_dense_embedding(probe.texts[i - 1], ScriptBefore(i - 1),
                                  settings.MAX_RETRIES).rest

ItemResult(i) ==
    generate_dense_embedding(probe.texts[i], ScriptBefore(i),
                             settings.MAX_RETRIES)

\* C5: batch_generate_dense_embeddings returns, without raising, a list as
\* long as its input; position i holds the vector the provider returned for
\* text i when that item's call succeeded and the 768-element zero vector
\* when it failed, whatever happened to the other items.
C5_BatchNeverRaises ==
    probe.op = "batch" =>
        /\ probe.out.status = "return"
        /\ Len(probe.out.embeddings) = Len(probe.texts)
        /\ \A i \in 1..Len(probe.texts) :
              LET r == ItemResult(i)
                  e == probe.out.embeddings[i]
              IN  /\ e.dim = EmbeddingDim
                  /\ (r.status = "return" /\ ~r.fallback) =>
                        /\ ~e.zero
                        /\ e.of = r.sent[Len(r.sent)]
                        /\ e.of <= Len(probe.texts[i])
                  /\ r.status = "raise" => e = ZeroVector

C5_Witness ==
    /\ probe.op = "batch"
    /\ Len(probe.texts) = 3
    /\ probe.out.failed_count = 1
    /\ probe.out.embeddings[2] = ZeroVector
    /\ ~probe.out.embeddings[1].zero
    /\ ~probe.out.embeddings[3].zero

\* C6: every failure that is not payload-too-large increments the retry
\* counter and is followed by a sleep of 2^retries unless it exhausts the
\* budget, in which case the call raises; with MAX_RETRIES = 3 a provider
\* that fails twice and then succeeds causes exactly the sleeps 2, 4 and the
\* vector of the 3rd attempt is returned.
C6_Backoff ==
    probe.op = "dense" =>
        LET out == probe.out
        IN  /\ out.retries = ErrorsSeen
            /\ \A k \in 1..Len(out.sleeps) : out.sleeps[k] = 2 ^ k
            /\ \A k \in 2..Len(out.sleeps) : out.sleeps[k] > out.sleeps[k - 1]
            /\ Len(out.sleeps) =
                 (IF ErrorsSeen > 0 /\ ErrorsSeen >= settings.MAX_RETRIES
                  THEN ErrorsSeen - 1 ELSE ErrorsSeen)
            /\ (ErrorsSeen > 0 /\ ErrorsSeen >= settings.MAX_RETRIES) =>
                  /\ out.status = "raise"
                  /\ out.value = "Failed to generate embedding after retries"
            /\ (/\ settings.MAX_RETRIES = 3
                /\ SubSeq(probe.script, 1, 3) = <<"error", "error", "ok">>) =>
                  /\ out.status = "return"
                  /\ ~out.value.zero
                  /\ out.sleeps = <<2, 4>>
                  /\ CallsMade = 3

C6_Witness ==
    /\ probe.op = "dense"
    /\ settings.MAX_RETRIES = 3
    /\ SubSeq(probe.script, 1, 3) = <<"error", "error", "ok">>
    /\ probe.out.status = "return"
    /\ probe.out.sleeps = <<2, 4>>

\* C7: a payload-too-large failure halves the text and retries at once: no
\* sleep, no use of the retry counter; the provider is never called with a
\* halved text shorter than 100 characters, and when the halved text is
\* shorter than 100 the call raises (it does not return a zero vector).
C7_Halving ==
    probe.op = "dense" =>
        LET out == probe.out
        IN  /\ \A k \in 2..CallsMade :
                  /\ Consumed(k - 1) = "too_large" =>
                        /\ out.sent[k] = out.sent[k - 1] \div 2
                        /\ out.sent[k] >= MinReducedLen
                  /\ Consumed(k - 1) = "error" => out.sent[k] = out.sent[k - 1]
            /\ Len(out.sleeps) + out.retries <= 2 * ErrorsSeen
            /\ (CallsMade > 0 /\ Consumed(CallsMade) = "too_large") =>
                  /\ out.status = "raise"
                  /\ out.value = "Text too short after reduction"
                  /\ out.sent[CallsMade] \div 2 < MinReducedLen

C7_Witness ==
    /\ probe.op = "dense"
    /\ probe.len = 450
    /\ probe.out.sent = <<450, 225, 112>>
    /\ probe.out.status = "raise"
    /\ probe.out.sleeps = <<>>
    /\ probe.out.retries = 0

\* C8: generate_dense_embedding ends after at most MAX_RETRIES plus the
\* number of halvings that keep the text at 100 characters or more provider
\* calls, for every text and every sequence of provider outcomes.
C8_BoundedCalls ==
    probe.op = "dense" =>
        /\ probe.out.status \in {"return", "raise"}
        /\ CallsMade <= settings.MAX_RETRIES
                          + (IF CallsMade = 0 THEN 0
                             ELSE Halvings(probe.out.sent[1]))

C8_Witness ==
    /\ probe.op = "dense"
    /\ settings.MAX_RETRIES = 3
    /\ probe.out.sent = <<450, 225, 112, 112, 112>>
    /\ CallsMade = settings.MAX_RETRIES + Halvings(450)

-----------------------------------------------------------------------------
(* Properties of the ingestion runs *)

StageOrder ==
    <<"fetch_pdf", "extract_details", "chunk_document", "generate_embeddings",
      "store_in_db">>

StoreSteps == {"store_in_db:project", "store_in_db:file", "store_in_db:chunks"}

Finished(r) == pc[r] \in {"END", "done"}

Range(f) == {f[i] : i \in DOMAIN f}

\* the stages of StageOrder before node
StagesBefore(node) ==
    SubSeq(StageOrder, 1,
           (CHOOSE i \in 1..Len(StageOrder) : StageOrder[i] = node) - 1)

IdFields == {"tender_file_id", "tender_id", "project_id", "chunks_created"}

\* C1: once the error field of a run is set, no later step of the run changes
\* its context or calls a collaborator (HTTP, extraction call, embedding
\* service, database), so the error is never cleared or replaced, and the
\* response built at the end carries exactly that error.
C1_ErrorIsFinal ==
    [][\A r \in Runs :
          ErrorSet(state[r]) =>
              /\ state'[r] = state[r]
              /\ trace'[r] = trace[r]
              /\ pc'[r] = "done" =>
                     /\ response'[r].status = "failed"
                     /\ response'[r].message = state[r].error]_vars

\* a run whose download failed went through all five stages without calling
\* anything else and reported the download error
C1_Witness ==
    \E r \in Runs :
        /\ pc[r] = "done"
        /\ state[r].error = FetchErrorMsg
        /\ hist[r] = StageOrder
        /\ trace[r] = [NoCalls EXCEPT !.http = 1]
        /\ response[r].message = FetchErrorMsg

\* C2: a run that ends with the error field set is answered with status
\* "failed", the error as the message, no file identifier and no other
\* identifier, also when the persist stage had written the project or the
\* file before it failed; the agent's answer is success = False with the
\* error and no identifier.
C2_FailureCarriesNoIds ==
    \A r \in Runs :
        (pc[r] = "done" /\ ErrorSet(state[r])) =>
            /\ response[r].status = "failed"
            /\ response[r].message = state[r].error
            /\ response[r].tender_file_id = 0
            /\ response[r].tender_details = None
            /\ DOMAIN response[r] \cap IdFields = {"tender_file_id"}
            /\ AgentResponse(state[r]).success = FALSE
            /\ AgentResponse(state[r]).error = state[r].error
            /\ DOMAIN AgentResponse(state[r]) \cap IdFields = {}

\* the chunk insert failed after the project and the file were committed
C2_Witness ==
    \E r \in Runs :
        /\ pc[r] = "done"
        /\ state[r].error = DbErrorChunks
        /\ trace[r].projects # {}
        /\ \E f \in tender_files : f.tender_file_id \in trace[r].files
        /\ response[r].status = "failed"

\* C3: when a write of the persist stage failed, no tender_files row that
\* the run inserted remains once the run is over.
C3_FailedPersistLeavesNoDocument ==
    \A r \in Runs :
        (Finished(r) /\ Get(state[r], "error", "") \in DatabaseErrors) =>
            ~ \E f \in tender_files : f.tender_file_id \in trace[r].files

\* C4: when the dense embedding call of a chunk raised, the embed stage
\* still ends without an error and with one hybrid embedding per chunk, the
\* failed chunk carrying the zero vector.
C4_FailedChunkIsDegraded ==
    \A r \in Runs :
        (pc[r] = "store_in_db" /\ trace[r].embed_raised # {}) =>
            /\ ~ErrorSet(state[r])
            /\ Has(state[r], "hybrid_embeddings")
            /\ Len(state[r].hybrid_embeddings) = Len(state[r].chunks)
            /\ \A i \in trace[r].embed_raised :
                   state[r].hybrid_embeddings[i].dense = ZeroVector

\* C9: the stages a run has executed are always an initial part of the
\* fixed order, the stage about to run is the next one of that order, and a
\* run that is over has executed each of the five exactly once; a run is at
\* one place of the graph at a time.
C9_StagesInOrder ==
    \A r \in Runs :
        /\ hist[r] = SubSeq(StageOrder, 1, Len(hist[r]))
        /\ pc[r] = "idle" => hist[r] = <<>>
        /\ pc[r] \in Range(StageOrder) => hist[r] = StagesBefore(pc[r])
        /\ (pc[r] \in StoreSteps \/ Finished(r)) => hist[r] = StageOrder

\* a run that stored its chunks is over after the five stages
C9_Witness ==
    \E r \in Runs :
        /\ pc[r] = "done"
        /\ hist[r] = StageOrder
        /\ Has(state[r], "db_status")
        /\ trace[r].chunks # {}

\* C10: the extraction stage leaves the error field unset whatever the
\* extraction call does; when the call raised, answered without a JSON
\* object or with JSON that does not parse (the stage fell back), the
\* details are all null, the structured data are the defaults, and the
\* chunk stage then runs (it writes the chunks field).
C10_ExtractionNeverFatal ==
    \A r \in Runs :
        /\ (pc[r] = "chunk_document" /\ trace[r].llm = 1) =>
               ~ErrorSet(state[r])
        /\ (pc[r] = "chunk_document" /\ trace[r].llm_fallback) =>
               /\ state[r].extracted_tender_details = NullDetails
               /\ state[r].structured_data = DefaultStructured
        /\ (pc[r] = "generate_embeddings" /\ trace[r].llm_fallback) =>
               Has(state[r], "chunks")

\* after a failed extraction the document was still chunked
C10_Witness ==
    \E r \in Runs :
        /\ pc[r] = "generate_embeddings"
        /\ trace[r].llm_fallback
        /\ ~ErrorSet(state[r])
        /\ state[r].extracted_tender_details = NullDetails
        /\ Len(state[r].chunks) > 0

-----------------------------------------------------------------------------
(* Properties of hybrid_search *)

SearchDone == probe.op \in {"hybrid_search", "hybrid_search_again"}

\* C11: a search of a document with N chunk rows returns min(top_k, N)
\* results (none when N = 0), ranked 1..n in list order, with relevance
\* scores that never increase along the list
C11_TopKRanked ==
    SearchDone =>
        /\ Len(probe.out) = MinOf({probe.top_k, probe.n})
        /\ \A i \in 1..Len(probe.out) : probe.out[i].rank = i
        /\ \A i \in 1..(Len(probe.out) - 1) :
              probe.out[i].relevance_score >= probe.out[i + 1].relevance_score

C11_Witness ==
    /\ probe.op = "hybrid_search"
    /\ probe.n > probe.top_k
    /\ probe.top_k = 2
    /\ Len(probe.out) = 2
    /\ probe.out[1].relevance_score > probe.out[2].relevance_score

\* C12: chunks of equal combined score come in chunk order, and a repeated
\* search with the same document, scores and parameters returns the same
\* sequence of chunks
C12_StableTieBreak ==
    /\ SearchDone =>
          \A i \in 1..(Len(probe.out) - 1) :
              probe.out[i].relevance_score = probe.out[i + 1].relevance_score
                  => probe.out[i].chunk.chunk_index
                        < probe.out[i + 1].chunk.chunk_index
    /\ probe.op = "hybrid_search_again" => probe.again = probe.out

\* the score the statement gives a row: missing scores count as 0
WeightedScore(id) ==
    (IF id \in DOMAIN probe.dense_scores THEN probe.dense_scores[id] ELSE 0)
        * probe.alpha
    + (IF id \in DOMAIN probe.bm25_scores THEN probe.bm25_scores[id] ELSE 0)
        * (ScoreUnit - probe.alpha)

DenseOrZero(id) ==
    IF id \in DOMAIN probe.dense_scores THEN probe.dense_scores[id] ELSE 0

LexicalOrZero(id) ==
    IF id \in DOMAIN probe.bm25_scores THEN probe.bm25_scores[id] ELSE 0

\* C13: every result carries alpha * dense + (1 - alpha) * lexical with a
\* missing score counted as 0; a row without a score is still returned when
\* top_k allows; alpha = 1 ranks by descending dense score and alpha = 0 by
\* descending lexical score
C13_WeightedSum ==
    SearchDone =>
        /\ \A i \in 1..Len(probe.out) :
              probe.out[i].relevance_score = WeightedScore(probe.out[i].chunk.id)
        /\ probe.top_k >= probe.n =>
              {probe.out[i].chunk.id : i \in 1..Len(probe.out)} = 1..probe.n
        /\ probe.alpha = ScoreUnit =>
              \A i \in 1..(Len(probe.out) - 1) :
                  DenseOrZero(probe.out[i].chunk.id)
                      >= DenseOrZero(probe.out[i + 1].chunk.id)
        /\ probe.alpha = 0 =>
              \A i \in 1..(Len(probe.out) - 1) :
                  LexicalOrZero(probe.out[i].chunk.id)
                      >= LexicalOrZero(probe.out[i + 1].chunk.id)

C13_Witness ==
    /\ probe.op = "hybrid_search"
    /\ probe.alpha = DefaultAlpha
    /\ probe.n = 2
    /\ Len(probe.out) = 2
    /\ probe.out[1].chunk.id \notin DOMAIN probe.dense_scores
    /\ probe.out[2].chunk.id \notin DOMAIN probe.bm25_scores
    /\ probe.out[1].relevance_score > probe.out[2].relevance_score

-----------------------------------------------------------------------------
(* Properties of the query and summary requests *)

Requested == probe.op \in {"query", "summarize"}

EventTypes(events) == [i \in 1..Len(events) |-> events[i].event]

TerminalAt(events) ==
    {i \in 1..Len(events) : events[i].event \in {"complete", "error"}}

HasEventData(events, data) == \E i \in 1..Len(events) : events[i].data = data

\* the request was answered as a missing document
SurfacedNotFound ==
    \/ probe.status_code = 404 /\ probe.detail = "Document not found"
    \/ HasEventData(probe.events, "No chunks found for file")

\* C14: a finished query or summarize request for a document that has no
\* chunk rows was answered as 'document not found' and not with the
\* 'No relevant information found' of a query that matched nothing
C14_ZeroChunksIsNotFound ==
    (/\ Requested
     /\ probe.pc = "closed"
     /\ FileRows(tender_chunks, probe.tender_file_id) = {})
        => /\ SurfacedNotFound
           /\ ~HasEventData(probe.events, "No relevant information found")

\* C15: a stream that has ended carries exactly one terminal event
\* (complete or error) and it is the last event; a stream still running
\* has sent no terminal event
C15_OneTerminalEvent ==
    (Requested /\ probe.status_code = 200) =>
        IF probe.pc = "closed"
        THEN TerminalAt(probe.events) = {Len(probe.events)}
        ELSE TerminalAt(probe.events) = {}

C15_Witness ==
    /\ Requested
    /\ probe.pc = "closed"
    /\ probe.token_count >= 1
    /\ probe.events[Len(probe.events)].event = "error"
    /\ probe.events[Len(probe.events) - 1].event = "token"

-----------------------------------------------------------------------------
(* Properties of the chunk stage *)

Chunked == probe.op = "chunk"

\* the row of the document with the given chunk_index
RowAt(rows, k) == CHOOSE row \in rows : row.chunk_index = k

\* C16: the persisted rows of a document with N chunks carry the indices
\* 0..N-1, each once, and read in index order they give the paragraphs of
\* the text in their original order
C16_IndicesContiguous ==
    (Chunked /\ probe.error = "") =>
        LET n == Cardinality(probe.rows)
        IN  /\ n = Len(probe.chunks)
            /\ \A k \in 0..(n - 1) :
                  Cardinality({row \in probe.rows : row.chunk_index = k}) = 1
            /\ JoinParagraphs([k \in 1..n |->
                                  RowAt(probe.rows, k - 1).chunk_text])
                  = JoinParagraphs(probe.paragraphs)

C16_Witness ==
    /\ Chunked
    /\ probe.error = ""
    /\ Cardinality(probe.rows) = 3
    /\ RowAt(probe.rows, 1).chunk_text # RowAt(probe.rows, 2).chunk_text

\* C17: no chunk has chunk_size above max_size, except a chunk made of one
\* paragraph that alone is longer than max_size
C17_ChunkSizeBound ==
    Chunked =>
        \A i \in 1..Len(probe.chunks) :
            \/ probe.chunks[i].metadata.chunk_size <= probe.max_chunk_size
            \/ /\ probe.chunks[i].text \in ParagraphTexts
               /\ Len(probe.chunks[i].text) > probe.max_chunk_size

-----------------------------------------------------------------------------
(* Properties of the value corrections *)

Extracted == probe.op = "extract"

\* C18: with the project value and the deposit both present and the
\* deposit's number above the project value's, the resulting project value
\* is the one recovered from the text when the text holds one, and else the
\* two fields are swapped; for "Rs. 50,000", "Rs. 2,00,000" and a text with
\* "Total Estimated Cost: Rs. 75,00,000" the project value becomes
\* "Rs. 75,00,000"
C18_SwapCorrected ==
    Extracted =>
        /\ (/\ probe.parsed.project_value # None
            /\ probe.parsed.emd_amount # None
            /\ clean_currency_value(probe.parsed.emd_amount)
                  > clean_currency_value(probe.parsed.project_value))
              => IF extract_project_value_from_text(probe.raw_text) # None
                 THEN probe.details.project_value
                         = extract_project_value_from_text(probe.raw_text)
                 ELSE /\ probe.details.project_value = probe.parsed.emd_amount
                      /\ probe.details.emd_amount = probe.parsed.project_value
        /\ (/\ probe.parsed.project_value = <<"R", "s", ".", " ", "5", "0", ",", "0", "0", "0">>
            /\ probe.parsed.emd_amount = <<"R", "s", ".", " ", "2", ",", "0", "0", ",", "0", "0", "0">>
            /\ probe.raw_text = <<"R", "o", "a", "d", " ", "w", "o", "r", "k", "s", ".", " ", "T", "o", "t", "a", "l", " ", "E", "s", "t", "i", "m", "a", "t", "e", "d", " ", "C", "o", "s", "t", ":", " ", "R", "s", ".", " ", "7", "5", ",", "0", "0", ",", "0", "0", "0">>)
              => probe.details.project_value = <<"R", "s", ".", " ", "7", "5", ",", "0", "0", ",", "0", "0", "0">>

-----------------------------------------------------------------------------
(* Properties of the project upsert *)

\* C19: whatever the interleaving of the existence checks and the writes of
\* two persist stages, every external project identifier has at most one
\* project row and no run's project write ends as a failure of that run
C19_UpsertRaceSafe ==
    /\ \A p, q \in tender_projects : p.project_id = q.project_id => p = q
    /\ \A r \in Runs : Get(state[r], "error", "") # DbErrorDuplicate

-----------------------------------------------------------------------------
(* Properties of the chunk rows *)

\* the step is the bulk write that ends the persist stage of run r
BulkWriteOf(r) ==
    /\ pc[r] = "store_in_db:chunks"
    /\ pc'[r] = NextNode("store_in_db")
    /\ FileRows(tender_chunks, state[r].tender_file_id) = {}
    /\ \A row \in tender_chunks' \ tender_chunks :
          row.tender_file_id = state[r].tender_file_id

-----------------------------------------------------------------------------
(* Properties of failed runs *)

EmbeddingErrors ==
    {"Embedding error: Text too short after reduction",
     "Embedding error: Failed to generate embedding after retries"}

\* the error of the run was set by the fetch, chunk or embed stage
EarlyFailure(r) ==
    \/ Get(state[r], "error", "") = FetchErrorMsg
    \/ Get(state[r], "error", "") = "Chunking error: 'raw_text'"
    \/ Get(state[r], "error", "") \in EmbeddingErrors
    \/ trace[r].embed_raised # {}

\* C21: a run whose fetch, chunk or embed stage failed never queries or
\* writes the database: no project row, file row or chunk row is its own
C21_EarlyFailureWritesNothing ==
    \A r \in Runs :
        EarlyFailure(r) =>
            /\ trace[r].db = 0
            /\ trace[r].projects = {}
            /\ trace[r].files = {}
            /\ trace[r].chunks = {}

\* one run ended on an embedding error while the other run stored a document
C21_Witness ==
    \E r, q \in Runs :
        /\ pc[r] = "done"
        /\ state[r].error \in EmbeddingErrors
        /\ trace[r].embed_raised # {}
        /\ hist[r] = StageOrder
        /\ pc[q] = "done"
        /\ trace[q].files # {}

-----------------------------------------------------------------------------
(* Properties of the worker pool *)

\* C22: whatever the order in which the workers finished, the row with
\* chunk index i carries the text of chunk i and the dense vector, sparse
\* map and tokens computed from that text
C22_ResultsKeepInputOrder ==
    probe.op = "pool_done" =>
        /\ Cardinality(probe.rows) = Len(probe.chunks)
        /\ \A row \in probe.rows :
              LET text == probe.chunks[row.chunk_index + 1].text
              IN  /\ row.chunk_text = text
                  /\ row.dense_embedding = ProviderVector(text)
                  /\ row.bm25_tokens = preprocess_text(text)
                  /\ row.sparse_embedding
                        = generate_sparse_embedding(preprocess_text(text))

\* three chunks of different texts whose workers finished out of order
C22_Witness ==
    /\ probe.op = "pool_done"
    /\ probe.completed = <<3, 1, 2>>
    /\ Cardinality({row.dense_embedding : row \in probe.rows}) = 3

-----------------------------------------------------------------------------
(* Properties of the chunk metadata *)

\* C23: the chunk_size of every emitted chunk is the number of characters
\* of the chunk's emitted text
C23_ChunkSizeIsTextLength ==
    Chunked =>
        \A i \in 1..Len(probe.chunks) :
            probe.chunks[i].metadata.chunk_size = Len(probe.chunks[i].text)

-----------------------------------------------------------------------------
(* Properties of the project identifiers *)

\* C24: two ingestion calls never carry the same project identifier, so no
\* run finds a project row of its identifier and no run takes the update
\* path of the project upsert
C24_ProjectIdsDistinct ==
    /\ \A r, q \in Runs :
          (r # q /\ pc[r] # "idle" /\ pc[q] # "idle")
              => state[r].project_id # state[q].project_id
    /\ \A r \in Runs : existing[r] = 0

-----------------------------------------------------------------------------
(* Properties of the fetched text *)

\* text holds a newline, optional whitespace and a newline
HasBlankLine(text) ==
    \E i, j \in 1..Len(text) :
        /\ i < j
        /\ text[i] = "\n" /\ text[j] = "\n"
        /\ \A k \in (i + 1)..(j - 1) : text[k] \in Whitespace

\* C25: the raw_text stored by the fetch stage holds no blank-line
\* separator, and the chunk stage gives at most one chunk for it whatever
\* its length and the maximum chunk size
C25_FetchedTextIsOneChunk ==
    probe.op = "fetch" =>
        /\ ~HasBlankLine(probe.raw_text)
        /\ Len(probe.chunks) <= 1

\* two pages with blank lines, longer than the maximum size, in one chunk
C25_Witness ==
    /\ probe.op = "fetch"
    /\ Len(probe.pages) = 2
    /\ HasBlankLine(probe.pages[1])
    /\ HasBlankLine(probe.pages[2])
    /\ Len(probe.chunks) = 1
    /\ Len(probe.chunks[1].text) > probe.max_chunk_size

-----------------------------------------------------------------------------
(* Properties of documents without chunks *)

\* the failures of the database itself and of the race of two runs
DatabaseDown == {DbErrorQuery, DbErrorProject, DbErrorFile, DbErrorDuplicate}

\* C26: a run whose chunk stage gave zero chunks skips the embed stage
\* without an error, writes a project row and a file row and no chunk row,
\* and is answered with success and chunk count 0 (the database being up)
C26_EmptyDocumentSucceeds ==
    \A r \in Runs :
        (/\ pc[r] = "done"
         /\ Has(state[r], "chunks") /\ state[r].chunks = <<>>
         /\ Get(state[r], "error", "") \notin DatabaseDown)
            => /\ trace[r].embed = 0
               /\ ~ErrorSet(state[r])
               /\ trace[r].projects # {}
               /\ \E f \in tender_files :
                     /\ f.tender_file_id \in trace[r].files
                     /\ FileRows(tender_chunks, f.tender_file_id) = {}
               /\ response[r].status = "success"
               /\ ServiceResult(state[r], state[r].project_id).chunks_created = 0

-----------------------------------------------------------------------------
(* Properties of the extraction fallback *)

\* C27: when the parsed JSON has the summary key with a null or sentinel
\* value, the stage ends with every detail field None, tender value 0 and
\* the default file name, whatever the other fields of the JSON hold
C27_NullSummaryDiscardsDetails ==
    (/\ probe.op = "extract_stage"
     /\ Has(probe.parsed, "summary")
     /\ probe.parsed.summary \in NullStrings \cup {None, <<>>})
        => /\ probe.details = NullDetails
           /\ probe.structured_data = DefaultStructured

\* a response with a title and a plain project value, and a null summary
C27_Witness ==
    /\ probe.op = "extract_stage"
    /\ Has(probe.parsed, "summary")
    /\ probe.parsed.summary = None
    /\ probe.parsed.project_value = <<"3", ",", "0", "0", ",", "0", "0", "0">>
    /\ probe.parsed.project_title = <<"R", "o", "a", "d">>
    /\ probe.details.project_title = None
    /\ probe.structured_data.tender_value = 0

-----------------------------------------------------------------------------
(* Properties of the value recovered from the text *)

\* the project value of the result is the one recovered from the text and
\* not the one of the response
RegexValueAdopted ==
    /\ extract_project_value_from_text(probe.raw_text) # None
    /\ probe.details.project_value
          = extract_project_value_from_text(probe.raw_text)
    /\ probe.details.project_value # probe.parsed.project_value

\* the "too small" correction changed the project value it was given
SmallValueChanged == probe.details.project_value # probe.after_swap.raw

\* C28 as stated: the value recovered from the text always cleans to 0.0,
\* an adopted recovered value is stored with tender value 0.0, and the
\* "too small" correction never changes the project value
C28_SmallCorrectionNeverActs ==
    Extracted =>
        /\ clean_currency_value(
              extract_project_value_from_text(probe.raw_text)) = 0
        /\ RegexValueAdopted => probe.structured_data.tender_value = 0
        /\ ~SmallValueChanged

\* C28: the value recovered from the text always cleans to 0.0 and an
\* adopted recovered value is stored with tender value 0.0; the "too small"
\* correction changes the project value only when the number of the value
\* it was given is negative, and then it adopts the recovered value
C28_RecoveredValueIsZero ==
    Extracted =>
        /\ clean_currency_value(
              extract_project_value_from_text(probe.raw_text)) = 0
        /\ RegexValueAdopted => probe.structured_data.tender_value = 0
        /\ SmallValueChanged =>
              /\ probe.after_swap.numeric < 0
              /\ RegexValueAdopted

\* the swap validation adopted the value of the text; it is stored as 0
C28_Witness ==
    /\ Extracted
    /\ probe.parsed.project_value = <<"5", "0", ",", "0", "0", "0">>
    /\ probe.parsed.emd_amount = <<"2", ",", "0", "0", ",", "0", "0", "0">>
    /\ RegexValueAdopted
    /\ probe.after_swap.raw = probe.details.project_value
    /\ probe.structured_data.tender_value = 0

-----------------------------------------------------------------------------
(* Properties of chunk_text *)

\* C29: with 0 <= overlap < max_size and a text longer than max_size, every
\* iteration of the loop of chunk_text moves the window start forward, also
\* when the end was moved back to a sentence terminator
C29_WindowStartIncreases ==
    [][(/\ probe.op = "chunk_text"
        /\ probe.pc = "loop"
        /\ probe'.pc = "loop")
       => probe'.start > probe.start]_vars

-----------------------------------------------------------------------------
(* Properties of the fallback vector *)

\* the call returned the vector that the provider gave for the last text sent
ReturnedProviderVector ==
    /\ probe.out.status = "return"
    /\ ~probe.out.fallback
    /\ probe.out.sent # <<>>
    /\ probe.out.value = ProviderVector(
                            [i \in 1..probe.out.sent[Len(probe.out.sent)]
                                |-> "x"])

\* C30: generate_dense_embedding returns the all-zero fallback vector only
\* when MAX_RETRIES is 0 or less, and then without calling the provider; with
\* MAX_RETRIES of at least 1 the call ends by returning a vector of the
\* provider or by raising
C30_FallbackOnlyWithoutRetries ==
    probe.op = "dense" =>
        /\ (probe.out.status = "return" /\ probe.out.value = ZeroVector)
              => /\ settings.MAX_RETRIES <= 0
                 /\ probe.out.sent = <<>>
        /\ settings.MAX_RETRIES >= 1
              => \/ ReturnedProviderVector
                 \/ probe.out.status = "raise"

\* no retries are configured: the zero vector comes back although the
\* provider would have answered
C30_Witness ==
    /\ probe.op = "dense"
    /\ settings.MAX_RETRIES = 0
    /\ probe.script[1] = "ok"
    /\ probe.out.status = "return"
    /\ probe.out.value = ZeroVector
    /\ probe.out.sent = <<>>

====
